---- MODULE Spec2Model ----
(***************************************************************************)
(* tote: emergency image salvage operator.                                 *)
(*                                                                         *)
(* The model covers the reconciler (internal/controller), the salvage      *)
(* orchestrator (internal/transfer), the per-node agent service            *)
(* (internal/agent) and the session store (internal/session).  Reconcile   *)
(* workers run concurrently; every remote call of a salvage is one step.   *)
(* Strings that the code parses (image references, digests) are parsed as  *)
(* sequences of one-character strings.                                     *)
(***************************************************************************)
EXTENDS Integers, Sequences, FiniteSets, TLC

(***************************************************************************)
(* Bounds of the model.                                                    *)
(***************************************************************************)
NumWorkers == 2          \* concurrent reconcile workers
MaxConcurrent == 1       \* --max-concurrent-salvages chosen for the model
MaxSalvages == 2         \* Salvage invocations explored in one behaviour
MaxTime == 6             \* the clock stops here (minutes)
TickStep == 6            \* minutes per clock step
MaxChunks == 3           \* largest archive of the streamed export, in chunks
MaxWrite == 2            \* largest single Write of the export producer, in chunks
MaxTokens == 2           \* sessions created in a store used on its own
MaxClock == 2            \* the clock of a store used on its own stops here

(***************************************************************************)
(* Program constants.                                                      *)
(***************************************************************************)
AgentSessionTTL == 5     \* minutes; containerd.go: Register(..., 5*time.Minute)
DefaultSessionTTL == 5   \* minutes; config.DefaultSessionTTL
DigestLen == 71          \* "sha256:" (7) + 64 hex
HexLen == 64
ShortDigestLen == 8      \* createSalvageRecord: shortDigest[:8]
MaxOwnerDepth == 2       \* owner walk: Pod -> ReplicaSet -> Deployment
exportChunkSize == 32768 \* 32 KiB
DefaultMaxConcurrentSalvages == 2   \* config.DefaultMaxConcurrentSalvages

Tokens == 1..MaxSalvages \* session tokens minted by Store.Create
EmptyToken == 0          \* the empty string as a session token
RequeueDelay == 30       \* seconds, Result.RequeueAfter after a transient failure
Times == 0..MaxTime

(***************************************************************************)
(* String helpers (package strings).                                       *)
(***************************************************************************)
HasPrefix(s, p) == Len(s) >= Len(p) /\ SubSeq(s, 1, Len(p)) = p

HasSuffix(s, p) == Len(s) >= Len(p) /\ SubSeq(s, Len(s) - Len(p) + 1, Len(s)) = p

\* 1-based position of the last / first occurrence of character c, 0 if none
LastIndex(s, c) ==
    LET hits == {i \in 1..Len(s) : s[i] = c}
    IN  IF hits = {} THEN 0 ELSE CHOOSE i \in hits : \A j \in hits : j <= i

Index(s, c) ==
    LET hits == {i \in 1..Len(s) : s[i] = c}
    IN  IF hits = {} THEN 0 ELSE CHOOSE i \in hits : \A j \in hits : i <= j

Suffix(s, from) == SubSeq(s, from, Len(s))

(***************************************************************************)
(* Digests and image references of the modelled cluster.  The state holds  *)
(* them as strings; Chars gives the characters the parsing code sees.      *)
(***************************************************************************)
Sha256Prefix == <<"s","h","a","2","5","6",":">>
AtSha == <<"@">> \o Sha256Prefix

Hex(c) == [i \in 1..HexLen |-> c]
\* 64 hex digits that agree with Hex(c) on the first 8 only
HexAfter8(c, rest) == [i \in 1..HexLen |-> IF i <= 8 THEN c ELSE rest]

DigestA == "sha256:a..a"
DigestB == "sha256:b..b"
DigestC == "sha256:c..c"
DigestA2 == "sha256:aaaaaaaae..e"              \* shares its first 8 hex with DigestA
DigestRepacked == "sha256:d..d"                \* top-level digest after a repack
NoDigest == ""
Digests == {DigestA, DigestA2, DigestB, DigestC, DigestRepacked}

RefA == "r.io/app@sha256:a..a"
RefB == "r.io/db@sha256:b..b"
RefA2 == "r.io/app@sha256:aaaaaaaae..e"
RefC == "r.io/app@sha256:c..c"                 \* only in a corrupt record
RefTagA == "r.io/app:v1"                       \* grouped with RefA on n1
RefTagB == "r.io/db:v2"                        \* known to containerd on n2 only
RefTagX == "r.io/db:v9"                        \* reported nowhere
RefShort == "r.io/app@sha256:abc"              \* malformed digest

RepoApp == <<"r",".","i","o","/","a","p","p">>
RepoDb == <<"r",".","i","o","/","d","b">>

\* the characters of a string; "x..x" abbreviates 64 times the hex digit x
CharsOf ==
    [s \in Digests \cup {RefA, RefA2, RefB, RefC, RefTagA, RefTagB, RefTagX, RefShort} |->
        CASE s = DigestA -> Sha256Prefix \o Hex("a")
          [] s = DigestA2 -> Sha256Prefix \o HexAfter8("a", "e")
          [] s = RefA2 -> RepoApp \o AtSha \o HexAfter8("a", "e")
          [] s = DigestB -> Sha256Prefix \o Hex("b")
          [] s = DigestC -> Sha256Prefix \o Hex("c")
          [] s = DigestRepacked -> Sha256Prefix \o Hex("d")
          [] s = RefA -> RepoApp \o AtSha \o Hex("a")
          [] s = RefB -> RepoDb \o AtSha \o Hex("b")
          [] s = RefC -> RepoApp \o AtSha \o Hex("c")
          [] s = RefTagA -> RepoApp \o <<":","v","1">>
          [] s = RefTagB -> RepoDb \o <<":","v","2">>
          [] s = RefTagX -> RepoDb \o <<":","v","9">>
          [] OTHER -> RepoApp \o AtSha \o <<"a","b","c">>]
Chars(s) == IF s \in DOMAIN CharsOf THEN CharsOf[s] ELSE << >>

\* the digest string with the given characters, "" for the empty sequence;
\* a digest outside the table is kept as its characters
Str(cs) ==
    IF cs = << >> THEN ""
    ELSE IF \E d \in Digests : Chars(d) = cs THEN CHOOSE d \in Digests : Chars(d) = cs
    ELSE cs

(***************************************************************************)
(* The cluster the reconciler observes: namespaces, owner objects, nodes   *)
(* with their reported image lists, agent pods, and the workload pods.     *)
(***************************************************************************)
Absent == "<absent>"     \* an annotation key that is not set

\* metadata.annotations["tote.dev/allow"] of every namespace that can be read;
\* the Get of any other namespace fails
NsAllow ==
    [n \in {"default", "staging", "kube-system", "kube-public", "kube-node-lease"} |->
        CASE n = "default" -> "true"
          [] n = "staging" -> "TRUE"
          [] n = "kube-system" -> "true"
          [] n = "kube-public" -> Absent
          [] OTHER -> "true"]
Namespaces == DOMAIN NsAllow

\* owner objects (ReplicaSet, Deployment, ...): annotation and own owners
OwnerObj ==
    [o \in {"rs-web", "rs-plain", "deploy-plain", "rs-inh", "deploy-inh",
            "rs-deep", "deploy-deep", "app-deep"} |->
        CASE o = "rs-web" -> [autoSalvage |-> Absent, owners |-> << >>]
          [] o = "rs-plain" -> [autoSalvage |-> "false", owners |-> <<"deploy-plain">>]
          [] o = "deploy-plain" -> [autoSalvage |-> Absent, owners |-> << >>]
          [] o = "rs-inh" -> [autoSalvage |-> Absent, owners |-> <<"deploy-inh">>]
          [] o = "deploy-inh" -> [autoSalvage |-> "true", owners |-> << >>]
          [] o = "rs-deep" -> [autoSalvage |-> Absent, owners |-> <<"deploy-deep">>]
          [] o = "deploy-deep" -> [autoSalvage |-> Absent, owners |-> <<"app-deep">>]
          [] OTHER -> [autoSalvage |-> "true", owners |-> << >>]]

\* NodeList.Items in list order; Status.Images[].Names groups
NodeList == <<"n1", "n2", "n3">>
Nodes == {NodeList[i] : i \in 1..Len(NodeList)}
NodeImages ==
    [n \in Nodes |->
        CASE n = "n1" -> << <<RefA, RefTagA>>, <<RefC>>, <<RefA2>> >>
          [] n = "n2" -> << <<RefA>>, <<RefB>> >>
          [] OTHER -> << >>]

\* agent pods in the agent namespace: Spec.NodeName and Status.PodIP
AgentPods == << [node |-> "n1", ip |-> "10.0.0.1"],
                [node |-> "n2", ip |-> "10.0.0.2"],
                [node |-> "n3", ip |-> ""] >>
AgentPort == 9090
AgentNodes == {"n1", "n2"}

\* content of the node-local image stores before any salvage
InitialStore ==
    [n \in AgentNodes |-> IF n = "n1" THEN {DigestA, DigestA2, DigestC} ELSE {DigestB}]
\* image records whose content blobs are missing (Export fails)
CorruptOn == [n \in AgentNodes |-> IF n = "n1" THEN {DigestC} ELSE {}]
\* ImageStore.Size of a digest, in bytes
ImageSize(d) == IF d = DigestA THEN 10 ELSE 14
\* length of the archive Export writes, in bytes
ArchiveLen(d) == IF d = DigestA THEN 40000 ELSE 20

PullBackOffMsg == <<"Back-off pulling image">>
CorruptMsg == <<"failed to create containerd container:", "failed to resolve rootfs",
                ":", "content digest", "sha256:b50153e8abcd", ":", "not found">>

Waiting(name, reason, msg) ==
    [name |-> name, waiting |-> TRUE, reason |-> reason, message |-> msg]
Running(name) ==
    [name |-> name, waiting |-> FALSE, reason |-> "", message |-> << >>]
Container(name, image) == [name |-> name, image |-> image]

PodObj(name, ns, node, ann, salvaged, owners, cs, st, ics, ist) ==
    [name |-> name, namespace |-> ns, nodeName |-> node, autoSalvage |-> ann,
     salvagedDigest |-> salvaged, owners |-> owners,
     containers |-> cs, statuses |-> st, initContainers |-> ics, initStatuses |-> ist]

SimplePod(name, ns, node, ann, owners, image) ==
    PodObj(name, ns, node, ann, "", owners,
           <<Container("main", image)>>,
           <<Waiting("main", "ImagePullBackOff", PullBackOffMsg)>>, << >>, << >>)

PodTable ==
    [p \in {"web", "web2", "twin", "db", "edge", "far", "own", "sys", "lease", "noopt", "nsoff",
            "ghost", "inh", "deep", "cor", "bare", "fine", "done"} |->
        CASE p = "web" -> SimplePod(p, "default", "n2", "true", <<"rs-web">>, RefA)
          [] p = "web2" -> SimplePod(p, "default", "n2", "true", <<"rs-web">>, RefA)
          [] p = "twin" ->
               PodObj(p, "default", "n2", "true", NoDigest, <<"rs-web">>,
                      <<Container("main", RefA), Container("side", RefA2)>>,
                      <<Waiting("main", "ImagePullBackOff", PullBackOffMsg),
                        Waiting("side", "ImagePullBackOff", PullBackOffMsg)>>, << >>, << >>)
          [] p = "db" ->
               PodObj(p, "default", "n1", "true", NoDigest, << >>,
                      <<Container("main", RefB), Container("side", RefShort)>>,
                      <<Waiting("main", "ErrImagePull", PullBackOffMsg),
                        Waiting("side", "ContainerCreating", << >>)>>,
                      <<Container("init", RefTagX)>>,
                      <<Waiting("init", "ImagePullBackOff", PullBackOffMsg)>>)
          [] p = "edge" -> SimplePod(p, "default", "n1", "true", << >>, RefA)
          [] p = "far" -> SimplePod(p, "default", "n3", "true", <<"rs-web">>, RefA)
          [] p = "own" ->
               PodObj(p, "default", "n2", "true", NoDigest, <<"rs-web">>,
                      <<Container("main", RefB)>>,
                      <<Waiting("main", "ImagePullBackOff", PullBackOffMsg)>>,
                      <<Container("init", RefTagB)>>,
                      <<Waiting("init", "ErrImagePull", PullBackOffMsg)>>)
          [] p = "sys" -> SimplePod(p, "kube-system", "n2", "true", <<"rs-web">>, RefA)
          [] p = "lease" -> SimplePod(p, "kube-node-lease", "n2", "true", <<"rs-web">>, RefA)
          [] p = "noopt" -> SimplePod(p, "default", "n2", Absent, <<"rs-plain">>, RefA)
          [] p = "nsoff" -> SimplePod(p, "staging", "n2", "true", <<"rs-web">>, RefA)
          [] p = "ghost" -> SimplePod(p, "gone", "n2", "true", <<"rs-web">>, RefA)
          [] p = "inh" -> SimplePod(p, "default", "n1", Absent, <<"rs-inh">>, RefTagA)
          [] p = "deep" -> SimplePod(p, "default", "n2", "yes", <<"rs-deep">>, RefA)
          [] p = "cor" ->
               PodObj(p, "default", "n1", "true", NoDigest, <<"rs-web">>,
                      <<Container("main", RefC)>>,
                      <<Waiting("main", "CreateContainerError", CorruptMsg)>>, << >>, << >>)
          [] p = "bare" ->
               PodObj(p, "default", "n2", "true", NoDigest, << >>,
                      <<Container("main", RefB)>>,
                      <<Waiting("main", "CreateContainerError", CorruptMsg)>>, << >>, << >>)
          [] p = "fine" ->
               PodObj(p, "default", "n2", "true", NoDigest, <<"rs-web">>,
                      <<Container("main", RefA)>>, <<Running("main")>>, << >>, << >>)
          [] OTHER ->
               PodObj(p, "default", "n2", "true", DigestA, <<"rs-web">>,
                      <<Container("main", RefA)>>,
                      <<Waiting("main", "ImagePullBackOff", PullBackOffMsg)>>, << >>, << >>)]
PodNames == DOMAIN PodTable

\* the clusters explored: the pods present when the controller starts
Clusters == {{"web", "db"}, {"web", "edge", "far"}, {"own", "inh", "done", "cor", "deep"},
             {"sys", "lease", "noopt", "nsoff", "ghost", "deep", "fine"}, {"cor", "bare"},
             {"twin"}}
OpenClusters == {{"web"}, {"cor"}}
\* two replicas of one ReplicaSet on the same node, with the same image
PairClusters == {{"web", "web2"}, {"cor"}}

(***************************************************************************)
(* internal/config                                                         *)
(***************************************************************************)
DefaultDeniedNamespaces == <<"kube-system", "kube-public", "kube-node-lease">>

IsDenied_NoLease(namespace) ==
    namespace \in {"kube-system", "kube-public"}

\* Config.IsDenied with the map New() builds
IsDenied(namespace) ==
    \E i \in 1..Len(DefaultDeniedNamespaces) : DefaultDeniedNamespaces[i] = namespace

(***************************************************************************)
(* internal/resolver, internal/inventory, internal/detector                *)
(***************************************************************************)
\* resolver.Resolve: [original, digest, actionable]
\* the result of Resolve once the digest part is cut off
ResolveDigest(image, digest) ==
    IF HasPrefix(digest, Sha256Prefix) /\ Len(digest) = DigestLen
    THEN [original |-> image, digest |-> Str(digest), actionable |-> TRUE]
    ELSE [original |-> image, digest |-> NoDigest, actionable |-> FALSE]

\* the result of Resolve given the position of the last "@"
ResolveAt(image, cs, idx) ==
    IF idx = 0
    THEN [original |-> image, digest |-> NoDigest, actionable |-> FALSE]
    ELSE ResolveDigest(image, Suffix(cs, idx + 1))

Resolve(image) == ResolveAt(image, Chars(image), LastIndex(Chars(image), "@"))

AllNames(node) ==
    UNION {{NodeImages[node][g][k] : k \in 1..Len(NodeImages[node][g])} :
              g \in 1..Len(NodeImages[node])}

nodeHasDigest(node, digest) ==
    \E name \in AllNames(node) : HasSuffix(Chars(name), <<"@">> \o Chars(digest))

\* FindNodes: the nodes that report the digest, in list order
FindNodes(digest) == SelectSeq(NodeList, LAMBDA n : nodeHasDigest(n, digest))

\* largest element of a set of positions, 0 for the empty set
Last(S) == IF S = {} THEN 0 ELSE CHOOSE i \in S : \A j \in S : j <= i

\* smallest element of a set of positions, 0 for the empty set
First(S) == IF S = {} THEN 0 ELSE CHOOSE i \in S : \A j \in S : i <= j

\* strings.LastIndex(name, "@sha256:"), 1-based, 0 if there is none
LastIndexAtSha(cs) == Last({i \in 1..Len(cs) : cs[i] = "@" /\ HasPrefix(Suffix(cs, i), AtSha)})

\* the digest candidate that starts after position at
DigestAfter(cs, at) ==
    IF at # 0 /\ Len(cs) - at = DigestLen THEN Str(Suffix(cs, at + 1)) ELSE NoDigest

\* digest candidate of one image name: the part after the last "@sha256:"
NameDigest(name) == DigestAfter(Chars(name), LastIndexAtSha(Chars(name)))

\* the inner loop of nodeDigestForTag over one Names list
GroupHasTag(names, imageTag) == \E k \in 1..Len(names) : names[k] = imageTag

\* digest after the inner loop: that of the last name that carries one
GroupDigestAt(names, k) == IF k = 0 THEN NoDigest ELSE NameDigest(names[k])
GroupDigest(names) ==
    GroupDigestAt(names, Last({k \in 1..Len(names) : NameDigest(names[k]) # NoDigest}))

\* nodeDigestForTag: the digest of the first image entry that has the tag and
\* a digest
GroupsDigestAt(groups, g) == IF g = 0 THEN NoDigest ELSE GroupDigest(groups[g])
\* variant: the tag and the digest need not stand in the same image entry
nodeDigestIn_AnyEntry(groups, imageTag) ==
    IF \E g \in 1..Len(groups) : GroupHasTag(groups[g], imageTag)
    THEN GroupsDigestAt(groups, First({g \in 1..Len(groups) : GroupDigest(groups[g]) # NoDigest}))
    ELSE NoDigest
nodeDigestIn(groups, imageTag) ==
    GroupsDigestAt(groups,
                   First({g \in 1..Len(groups) :
                             /\ GroupHasTag(groups[g], imageTag)
                             /\ GroupDigest(groups[g]) # NoDigest}))
nodeDigestForTag(node, imageTag) == nodeDigestIn(NodeImages[node], imageTag)

\* the node list as the API server returns it: names with their image entries
NodeItems == [i \in 1..Len(NodeList) |->
                 [name |-> NodeList[i], images |-> NodeImages[NodeList[i]]]]

\* FindNodesByTag: the digest of the first node that resolves the tag, and
\* every node that resolves it, in list order
TagResult(hits, imageTag) ==
    [digest |-> IF hits = << >> THEN NoDigest ELSE nodeDigestIn(hits[1].images, imageTag),
     nodes |-> [i \in 1..Len(hits) |-> hits[i].name]]
FindNodesByTagIn(items, imageTag) ==
    TagResult(SelectSeq(items, LAMBDA it : nodeDigestIn(it.images, imageTag) # NoDigest),
              imageTag)
FindNodesByTag(imageTag) == FindNodesByTagIn(NodeItems, imageTag)

Contains(msg, part) == \E i \in 1..Len(msg) : msg[i] = part

isCorruptImageMessage_TwoPhrases(msg) ==
    /\ Contains(msg, "failed to resolve rootfs")
    /\ Contains(msg, "not found")

isCorruptImageMessage(msg) ==
    /\ Contains(msg, "failed to resolve rootfs")
    /\ Contains(msg, "content digest")
    /\ Contains(msg, "not found")

imagePullFailureReasons == {"ImagePullBackOff", "ErrImagePull"}

\* specImage[name]: the image of the last container spec with that name, "" if none
SpecImage(specs, name) ==
    IF \E i \in 1..Len(specs) : specs[i].name = name
    THEN specs[CHOOSE i \in 1..Len(specs) :
                   specs[i].name = name /\ \A j \in (i+1)..Len(specs) : specs[j].name # name].image
    ELSE ""

RECURSIVE detectInStatuses(_, _)
detectInStatuses(statuses, specs) ==
    IF statuses = << >> THEN << >>
    ELSE LET cs == Head(statuses)
             rest == detectInStatuses(Tail(statuses), specs)
             f(corrupt) == [containerName |-> cs.name, image |-> SpecImage(specs, cs.name),
                            reason |-> cs.reason, corruptImage |-> corrupt]
         IN  IF ~cs.waiting THEN rest
             ELSE IF cs.reason \in imagePullFailureReasons THEN <<f(FALSE)>> \o rest
             ELSE IF cs.reason = "CreateContainerError" /\ isCorruptImageMessage(cs.message)
                  THEN <<f(TRUE)>> \o rest
             ELSE rest

Detect(pod) ==
    detectInStatuses(pod.statuses, pod.containers) \o
    detectInStatuses(pod.initStatuses, pod.initContainers)

(***************************************************************************)
(* State.                                                                  *)
(***************************************************************************)
VARIABLES
    cfg,            \* controller flags: enabled, maxImageSize, backupRegistry,
                    \* maxConcurrentSalvages
    now,            \* wall clock, minutes
    pods,           \* names of the pods that exist
    store,          \* store[n]: digests with an image record on agent n
    agentSessions,  \* agentSessions[n]: session store of agent n, token -> session
    orchSessions,   \* session store of the orchestrator, token -> session
    nextToken,      \* number of tokens minted by Store.Create, plus one
    semaphore,      \* number of elements in Orchestrator.Semaphore
    records,        \* SalvageRecord objects
    metrics,        \* salvage and push counters
    wk,             \* wk[p]: position and locals of the reconcile of pod p, the
                    \* errors its Salvage calls returned so far, and the
                    \* Results returned by the reconciles of p that ran to the end
    events,         \* emitted cluster events: [reason, pod]
    salvageCalls,   \* Salvage invocations made by Reconcile
    prepLog,        \* successful PrepareExport calls served by agents; live tells
                    \* whether the token validated on the agent when the call came
    importLog,      \* ImportFrom calls issued by the orchestrator
    lastExport,     \* the latest ExportImage call served by an agent
    pushLog,        \* backup push attempts
    removals,       \* runs of the corrupt-image branch of Reconcile: [pod, node,
                    \* image, ok (of RemoveImageOnNode), steps, deleted]
    recordLog,      \* createSalvageRecord calls: [token, phase, created, taken]
    returned,       \* Salvage calls that have returned: [pod, token, err, deleted]
    gateLog,        \* reconciles that stopped before Salvage: [pod, gate]
    pullLog         \* pull failures without a usable digest handled by Reconcile:
                    \* [pod, image, agentsOK, reasons (of the events emitted, in
                    \* order), salvage (whether Salvage was called)]
VARIABLES
    ex              \* one ExportImage stream past its session check: the handler,
                    \* its producer goroutine, the pipe and the error channel

VARIABLES
    sv              \* the last call on a session.Store used on its own, with the
                    \* store before it and the sessions as Create returned them

VARIABLES
    fx,             \* a library function applied on its own: its input and result
    im              \* one ImportFrom call past its dial: the handler, its receiver
                    \* goroutine, the pipe and the error channel

vars == <<cfg, now, pods, store, agentSessions, orchSessions, nextToken, semaphore,
          records, metrics, wk, events, salvageCalls, prepLog, importLog, lastExport,
          pushLog, removals, recordLog, returned, gateLog, pullLog, ex, sv, fx, im>>

NoCall == [digest |-> NoDigest, imageRef |-> "", source |-> "", target |-> "",
           srcEP |-> "", tgtEP |-> "", token |-> EmptyToken, size |-> 0,
           exported |-> NoDigest]
IdleWorker == [pc |-> "idle", idx |-> 0, skip |-> "", call |-> NoCall,
               errs |-> {}, results |-> {}]

\* a worker at rest or at the start of a reconcile: the locals are fresh, the
\* log of the results returned for the pod is kept
Fresh(w) == [IdleWorker EXCEPT !.results = w.results]
\* Session{}: the zero value Validate returns with false
NoSession == [digest |-> NoDigest, sourceNode |-> "", targetNode |-> "", expiresAt |-> 0]
NoExport == [agent |-> "", token |-> EmptyToken, inStore |-> FALSE, expired |-> FALSE,
             started |-> FALSE, chunks |-> 0, digest |-> NoDigest, by |-> "none"]
EmptyStore == [t \in {} |-> NoCall]

\* controller flags: --enabled, --max-image-size, --backup-registry,
\* --max-concurrent-salvages
Flags(sizes, registries, slots) ==
    [enabled : BOOLEAN, maxImageSize : sizes, backupRegistry : registries,
     maxConcurrentSalvages : slots]

\* the flags a cluster is explored under: the cluster with an image over the
\* limit runs with the limit and the registry set, the three-pod cluster with
\* neither, the one-pod cluster with the registry only, the two replicas
\* with the registry and the default number of slots, every other cluster
\* with each combination
FlagsFor(cluster) ==
    CASE cluster = {"web", "db"} -> Flags({10}, {"backup.example.com"}, {MaxConcurrent})
      [] cluster = {"web", "edge", "far"} -> Flags({0}, {""}, {MaxConcurrent})
      [] cluster = {"web"} -> Flags({0}, {"backup.example.com"}, {MaxConcurrent})
      [] cluster = {"twin"} -> Flags({0}, {""}, {MaxConcurrent})
      [] cluster = {"web", "web2"} ->
             Flags({0}, {"backup.example.com"}, {DefaultMaxConcurrentSalvages})
      [] OTHER -> Flags({0, 10}, {"", "backup.example.com"}, {MaxConcurrent})

\* no ExportImage stream is open
NoStream == [h |-> "idle", g |-> "idle", left |-> 0, pending |-> 0, rclosed |-> FALSE,
             wclosed |-> FALSE, cancelled |-> FALSE, faulty |-> FALSE, errCh |-> "none",
             gerr |-> "none", ret |-> "none", sendErr |-> FALSE, hit |-> FALSE,
             next |-> 1, pipe |-> << >>, buf |-> << >>, sent |-> << >>,
             zeros |-> 0, empty |-> FALSE]

\* no call has been made on the store
NoCheck == [op |-> "none", token |-> EmptyToken, ok |-> FALSE, sess |-> NoSession,
            before |-> EmptyStore, made |-> EmptyStore, seen |-> {}]

\* no library function is being applied on its own
NoFx == [fn |-> "none", in |-> << >>, out |-> << >>, done |-> FALSE]

\* no ImportFrom call is running
NoImport == [h |-> "idle", r |-> "idle", total |-> 0, cut |-> 0, fate |-> "eof",
             sent |-> 0, pending |-> 0, got |-> 0, wclosed |-> FALSE, sawEOF |-> FALSE,
             errCh |-> "none", imported |-> "none", has |-> FALSE, ret |-> "none"]

\* the controller and the agents at rest
Idle ==
    /\ sv = NoCheck
    /\ now = 0
    /\ store = InitialStore
    /\ agentSessions = [n \in AgentNodes |-> EmptyStore]
    /\ orchSessions = EmptyStore
    /\ nextToken = 1
    /\ semaphore = 0
    /\ records = {}
    /\ metrics = [attempt |-> 0, success |-> 0, failure |-> 0,
                  pushAttempt |-> 0, pushSuccess |-> 0, pushFailure |-> 0]
    /\ wk = [p \in pods |-> IdleWorker]
    /\ events = {}
    /\ salvageCalls = {}
    /\ prepLog = {}
    /\ importLog = {}
    /\ lastExport = NoExport
    /\ pushLog = {}
    /\ removals = {}
    /\ recordLog = {}
    /\ returned = {}
    /\ gateLog = {}
    /\ pullLog = {}

InitFor(clusters) ==
    /\ pods \in clusters
    /\ cfg \in FlagsFor(pods)
    /\ ex = NoStream
    /\ fx = NoFx
    /\ im = NoImport
    /\ Idle

Init == InitFor(Clusters)

(***************************************************************************)
(* internal/session: Store                                                 *)
(***************************************************************************)
\* Store.Create: the store after inserting a session under a fresh token
Create(sessions, token, digest, sourceNode, targetNode, ttl) ==
    (token :> [digest |-> digest, sourceNode |-> sourceNode,
               targetNode |-> targetNode, expiresAt |-> now + ttl]) @@ sessions

\* Store.Register: the agent-side insertion under a token chosen by the caller
Register(sessions, token, digest, ttl) ==
    (token :> [digest |-> digest, sourceNode |-> "", targetNode |-> "",
               expiresAt |-> now + ttl]) @@ sessions

\* what Validate returns with false
Invalid(sessions) ==
    [ok |-> FALSE, digest |-> NoDigest, sess |-> NoSession, sessions |-> sessions]

\* what Validate returns with true
Valid(sessions, token) ==
    [ok |-> TRUE, digest |-> sessions[token].digest, sess |-> sessions[token],
     sessions |-> sessions]

Validate_NoExpiry(sessions, token) ==
    IF token \notin DOMAIN sessions
    THEN Invalid(sessions)
    ELSE Valid(sessions, token)

Validate_AtDeadline(sessions, token) ==
    IF token \notin DOMAIN sessions
    THEN Invalid(sessions)
    ELSE IF now >= sessions[token].expiresAt
         THEN Invalid([t \in DOMAIN sessions \ {token} |-> sessions[t]])
         ELSE Valid(sessions, token)

\* Store.Validate: [ok, digest of the session, the session, the store afterwards]
Validate(sessions, token) ==
    IF token \notin DOMAIN sessions
    THEN Invalid(sessions)
    ELSE IF now > sessions[token].expiresAt
         THEN Invalid([t \in DOMAIN sessions \ {token} |-> sessions[t]])
         ELSE Valid(sessions, token)

Delete_Keep(sessions, token) == sessions

\* Store.Delete
Delete(sessions, token) == [t \in DOMAIN sessions \ {token} |-> sessions[t]]

\* Store.Cleanup: every expired session is removed
Cleanup(sessions) ==
    [t \in {u \in DOMAIN sessions : ~(now > sessions[u].expiresAt)} |-> sessions[t]]

(***************************************************************************)
(* internal/transfer: Resolver                                             *)
(***************************************************************************)
Endpoint(ip) == <<ip, AgentPort>>
NoEndpoint == << >>

\* EndpointForNode: the endpoint of the first agent pod on the node that has
\* an IP, NoEndpoint (an error) when the list fails or no such pod exists
EndpointForNode(nodeName, listOK) ==
    LET hits == {i \in 1..Len(AgentPods) :
                    AgentPods[i].node = nodeName /\ AgentPods[i].ip # ""}
    IN  IF ~listOK \/ hits = {} THEN NoEndpoint
        ELSE Endpoint(AgentPods[CHOOSE i \in hits : \A j \in hits : i <= j].ip)

\* the node whose agent listens on an endpoint
AgentAt(endpoint) ==
    LET i == CHOOSE i \in 1..Len(AgentPods) : Endpoint(AgentPods[i].ip) = endpoint
    IN  AgentPods[i].node

\* name -> digest table of the containerd image service of each agent
AgentTags(n, imageRef) ==
    IF n = "n2" /\ imageRef = RefTagB THEN DigestB ELSE NoDigest

\* ResolveTagViaAgents: [digest, node] of the first agent that resolves the tag
RECURSIVE AskAgents(_, _)
AskAgents(agentPods, imageRef) ==
    IF agentPods = << >> THEN [digest |-> NoDigest, node |-> ""]
    ELSE LET pod == Head(agentPods)
         IN  IF pod.ip = "" \/ AgentTags(pod.node, imageRef) = NoDigest
             THEN AskAgents(Tail(agentPods), imageRef)
             ELSE [digest |-> AgentTags(pod.node, imageRef), node |-> pod.node]

ResolveTagViaAgents(imageRef, listOK) ==
    IF listOK THEN AskAgents(AgentPods, imageRef) ELSE [digest |-> NoDigest, node |-> ""]

(***************************************************************************)
(* internal/controller: opt-in gates and source selection                  *)
(***************************************************************************)
namespaceOptedIn_AnyCase(namespace) ==
    namespace \in DOMAIN NsAllow /\ NsAllow[namespace] \in {"true", "TRUE"}

\* namespaceOptedIn: false when the Get of the namespace fails
namespaceOptedIn(namespace) ==
    namespace \in DOMAIN NsAllow /\ NsAllow[namespace] = "true"

RECURSIVE OwnerOptedIn_Unbounded(_, _)
OwnerOptedIn_Unbounded(owners, depth) ==
    \E i \in 1..Len(owners) :
        \/ OwnerObj[owners[i]].autoSalvage = "true"
        \/ OwnerOptedIn_Unbounded(OwnerObj[owners[i]].owners, depth)

\* some owner in the list, or an owner of it up to the given depth, carries
\* tote.dev/auto-salvage = "true"
RECURSIVE OwnerOptedIn(_, _)
OwnerOptedIn(owners, depth) ==
    /\ depth > 0
    /\ \E i \in 1..Len(owners) :
          \/ OwnerObj[owners[i]].autoSalvage = "true"
          \/ OwnerOptedIn(OwnerObj[owners[i]].owners, depth - 1)

\* isAutoSalvageEnabled: the pod's own annotation, then the owner walk
isAutoSalvageEnabled(pod) ==
    pod.autoSalvage = "true" \/ OwnerOptedIn(pod.owners, MaxOwnerDepth)

hasSalvageRecord_Never(recs, digest) == FALSE

\* hasSalvageRecord: a SalvageRecord with spec.digest = digest exists
hasSalvageRecord(recs, digest) == \E r \in recs : r.digest = digest

PickSource_First(nodes, nodeName) == IF nodes = << >> THEN "" ELSE nodes[1]

\* the first candidate that is not the pod's node, "" if there is none
PickSource(nodes, nodeName) ==
    LET others == {i \in 1..Len(nodes) : nodes[i] # nodeName}
    IN  IF others = {} THEN ""
        ELSE nodes[CHOOSE i \in others : \A j \in others : i <= j]

(***************************************************************************)
(* internal/agent: Server handlers                                         *)
(***************************************************************************)
PrepareExport_RegisterFirst(a, token, digest, storeOK) ==
    IF token = EmptyToken \/ digest = NoDigest
    THEN [ok |-> FALSE, size |-> 0, sessions |-> agentSessions[a]]
    ELSE IF ~storeOK \/ digest \notin store[a]
         THEN [ok |-> FALSE, size |-> 0,
               sessions |-> Register(agentSessions[a], token, digest, AgentSessionTTL)]
         ELSE [ok |-> TRUE, size |-> ImageSize(digest),
               sessions |-> Register(agentSessions[a], token, digest, AgentSessionTTL)]

\* Server.PrepareExport: [ok, sizeBytes, the agent's session store afterwards]
PrepareExport(a, token, digest, storeOK) ==
    IF token = EmptyToken \/ digest = NoDigest
    THEN [ok |-> FALSE, size |-> 0, sessions |-> agentSessions[a]]
    ELSE IF ~storeOK \/ digest \notin store[a]
         THEN [ok |-> FALSE, size |-> 0, sessions |-> agentSessions[a]]
         ELSE [ok |-> TRUE, size |-> ImageSize(digest),
               sessions |-> Register(agentSessions[a], token, digest, AgentSessionTTL)]

\* ImageStore.Export succeeds iff the record exists and its blobs are present
ExportOK(a, digest) == digest \in store[a] /\ digest \notin CorruptOn[a]

\* number of DataChunk frames for an archive of n bytes
Frames(n) == (n + exportChunkSize - 1) \div exportChunkSize

\* Server.ExportImage: whether the producer was started, the frames sent,
\* whether the stream ended cleanly, and the agent's session store afterwards
ExportImage(a, token) ==
    IF token = EmptyToken
    THEN [started |-> FALSE, chunks |-> 0, clean |-> FALSE, digest |-> NoDigest,
          sessions |-> agentSessions[a]]
    ELSE LET v == Validate(agentSessions[a], token)
         IN  IF ~v.ok
             THEN [started |-> FALSE, chunks |-> 0, clean |-> FALSE, digest |-> NoDigest,
                   sessions |-> v.sessions]
             ELSE [started |-> TRUE,
                   chunks |-> IF ExportOK(a, v.digest) THEN Frames(ArchiveLen(v.digest)) ELSE 0,
                   clean |-> ExportOK(a, v.digest), digest |-> v.digest,
                   sessions |-> v.sessions]

\* what the session store held for the token when the call arrived
ExportEntry(a, token, r, by) ==
    [agent |-> a, token |-> token,
     inStore |-> token \in DOMAIN agentSessions[a],
     expired |-> token \in DOMAIN agentSessions[a] /\ now > agentSessions[a][token].expiresAt,
     started |-> r.started, chunks |-> r.chunks, digest |-> r.digest, by |-> by]

(***************************************************************************)
(* internal/controller: PodReconciler.Reconcile                            *)
(***************************************************************************)
Emit(reason, pod) == events \cup {[reason |-> reason, pod |-> pod]}

\* the loop moves to the next failure; skip tells why Salvage was not called
Skip(p, why) == [wk EXCEPT ![p].idx = @ + 1, ![p].call = NoCall, ![p].pc = "loop",
                           ![p].skip = why]
Continue(p) == Skip(p, "")

\* the failures of the pod object the running reconcile of p has read
FailuresOf == [q \in PodNames |-> Detect(PodTable[q])]
Failures(p) == FailuresOf[p]

\* pods whose reconcile is running on some worker
Busy == {p \in DOMAIN wk : wk[p].pc # "idle"}

Gate_NoKillSwitch(p) ==
    IF IsDenied(PodTable[p].namespace) THEN "denied"
    ELSE IF p \notin pods THEN "notfound"
    ELSE IF ~namespaceOptedIn(PodTable[p].namespace) THEN "namespace"
    ELSE IF ~isAutoSalvageEnabled(PodTable[p]) THEN "annotation"
    ELSE IF Failures(p) = << >> THEN "healthy"
    ELSE ""

\* the early return of Reconcile that applies first, "" if none does
Gate(p) ==
    IF ~cfg.enabled THEN "disabled"
    ELSE IF IsDenied(PodTable[p].namespace) THEN "denied"
    ELSE IF p \notin pods THEN "notfound"
    ELSE IF ~namespaceOptedIn(PodTable[p].namespace) THEN "namespace"
    ELSE IF ~isAutoSalvageEnabled(PodTable[p]) THEN "annotation"
    ELSE IF Failures(p) = << >> THEN "healthy"
    ELSE ""

\* the objects Reconcile has fetched from the API server when it returns at a
\* gate: the kill switch and the deny list are checked on the request alone
Reads(gate) ==
    CASE gate \in {"disabled", "denied"} -> {}
      [] gate = "notfound" -> {"pod"}
      [] gate = "namespace" -> {"pod", "namespace"}
      [] OTHER -> {"pod", "namespace", "owners"}

\* Reconcile up to the failure loop: kill switch, deny list, Get, double
\* opt-in, Detect.  The work queue runs one reconcile per pod key at a time,
\* on at most NumWorkers workers.
ReconcileBegin(p) ==
    /\ wk[p].pc = "idle"
    /\ Cardinality(Busy) < NumWorkers
    /\ LET gate == Gate(p)
       IN  IF gate = ""
           THEN /\ wk' = [wk EXCEPT ![p] = [Fresh(wk[p]) EXCEPT !.pc = "loop", !.idx = 1]]
                /\ UNCHANGED gateLog
           ELSE /\ gateLog' = gateLog \cup {[pod |-> p, gate |-> gate]}
                /\ UNCHANGED wk
    /\ UNCHANGED <<cfg, now, pods, store, agentSessions, orchSessions, nextToken,
                   semaphore, records, metrics, events, salvageCalls, prepLog,
                   importLog, lastExport, pushLog, removals, recordLog, returned, pullLog,
                   ex, sv, fx, im>>

CorruptSteps_NoStop(removed, owned) ==
    <<"event", "remove">> \o (IF owned THEN <<"delete">> ELSE << >>)

\* the calls the corrupt-image branch makes, in statement order: the event,
\* RemoveImageOnNode, and Client.Delete unless the removal failed or the pod
\* has no owner reference
CorruptSteps(removed, owned) ==
    <<"event", "remove">> \o (IF removed /\ owned THEN <<"delete">> ELSE << >>)

\* the corrupt-image branch for one failure
ReconcileCorrupt(p) ==
    /\ wk[p].pc = "loop"
    /\ wk[p].idx <= Len(Failures(p))
    /\ Failures(p)[wk[p].idx].corruptImage
    /\ \E agentsOK \in BOOLEAN, apiOK \in BOOLEAN :
          LET pod == PodTable[p]
              f == Failures(p)[wk[p].idx]
              ep == EndpointForNode(pod.nodeName, agentsOK)
              d == Resolve(f.image).digest
              removed == ep # NoEndpoint /\ d \in store[AgentAt(ep)]
              steps == CorruptSteps(removed, pod.owners # << >>)
              deleted == Contains(steps, "delete") /\ apiOK
          IN  /\ events' = Emit("ImageCorrupt", p)
              /\ removals' = removals \cup
                     {[pod |-> p, node |-> pod.nodeName, image |-> f.image, ok |-> removed,
                       steps |-> steps, deleted |-> deleted]}
              /\ store' = IF removed
                          THEN [store EXCEPT ![AgentAt(ep)] = @ \ {d}]
                          ELSE store
              /\ pods' = IF deleted THEN pods \ {p} ELSE pods
    /\ wk' = Continue(p)
    /\ UNCHANGED <<im, fx, sv, ex, pullLog, gateLog, cfg, now, agentSessions, orchSessions, nextToken, semaphore,
                   records, metrics, salvageCalls, prepLog, importLog, lastExport,
                   pushLog, recordLog, returned>>

\* digest and candidate nodes of a pull failure: [err, digest, nodes]
LocateByAgent(byTag, byAgent) ==
    IF byAgent.digest # NoDigest /\ byAgent.node # ""
    THEN [err |-> FALSE, digest |-> byAgent.digest, nodes |-> <<byAgent.node>>]
    ELSE [err |-> FALSE, digest |-> byAgent.digest, nodes |-> byTag.nodes]

LocateByTag(image, byTag, agentsOK) ==
    IF byTag.digest # NoDigest
    THEN [err |-> FALSE, digest |-> byTag.digest, nodes |-> byTag.nodes]
    ELSE LocateByAgent(byTag, ResolveTagViaAgents(image, agentsOK))

LocateResolved(image, res, agentsOK) ==
    IF res.actionable
    THEN [err |-> FALSE, digest |-> res.digest, nodes |-> FindNodes(res.digest)]
    ELSE LocateByTag(image, FindNodesByTag(image), agentsOK)

Locate(image, listOK, agentsOK) ==
    IF ~listOK THEN [err |-> TRUE, digest |-> NoDigest, nodes |-> << >>]
    ELSE LocateResolved(image, Resolve(image), agentsOK)

\* Locate tabulated over the images of the pod table
FailingImages ==
    UNION {{FailuresOf[q][i].image : i \in 1..Len(FailuresOf[q])} : q \in PodNames}
LocateOf == [image \in FailingImages, listOK \in BOOLEAN, agentsOK \in BOOLEAN |->
                Locate(image, listOK, agentsOK)]

PullEvents_Twice(loc) ==
    IF loc.err THEN << >>
    ELSE IF loc.digest = NoDigest THEN <<"ImageNotActionable", "ImageNotActionable">>
    ELSE IF loc.nodes = << >> THEN << >>
    ELSE <<"ImageSalvageable">>

\* the reasons of the events Reconcile emits for one pull failure, in order
PullEvents(loc) ==
    IF loc.err THEN << >>
    ELSE IF loc.digest = NoDigest THEN <<"ImageNotActionable">>
    ELSE IF loc.nodes = << >> THEN << >>
    ELSE <<"ImageSalvageable">>

EmitAll(reasons, pod) ==
    events \cup {[reason |-> reasons[i], pod |-> pod] : i \in 1..Len(reasons)}

\* a pull failure: resolve, find candidates, emit, and either skip or enter
\* Salvage (its first statement, the attempt counter, included)
ReconcilePull(p) ==
    /\ wk[p].pc = "loop"
    /\ wk[p].idx <= Len(Failures(p))
    /\ ~Failures(p)[wk[p].idx].corruptImage
    /\ \E listOK \in BOOLEAN, agentsOK \in BOOLEAN :
          LET pod == PodTable[p]
              f == Failures(p)[wk[p].idx]
              loc == LocateOf[f.image, listOK, agentsOK]
              src == PickSource(loc.nodes, pod.nodeName)
              skip == IF pod.salvagedDigest = loc.digest THEN "annotated"
                      ELSE IF hasSalvageRecord(records, loc.digest) THEN "recorded"
                      ELSE IF src = "" THEN "nosource"
                      ELSE ""
              salvage == ~loc.err /\ loc.digest # NoDigest /\ loc.nodes # << >> /\ skip = ""
          IN  /\ events' = EmitAll(PullEvents(loc), p)
              /\ pullLog' = IF loc.err \/ Resolve(f.image).actionable THEN pullLog
                            ELSE pullLog \cup {[pod |-> p, image |-> f.image,
                                                agentsOK |-> agentsOK,
                                                reasons |-> PullEvents(loc),
                                                salvage |-> salvage]}
              /\ IF loc.err
                 THEN /\ wk' = [wk EXCEPT ![p] = Fresh(wk[p])]
                      /\ UNCHANGED <<salvageCalls, metrics>>
                 ELSE IF loc.digest = NoDigest \/ loc.nodes = << >>
                 THEN /\ wk' = Continue(p)
                      /\ UNCHANGED <<salvageCalls, metrics>>
                 ELSE IF skip # ""
                 THEN /\ wk' = Skip(p, skip)
                      /\ UNCHANGED <<salvageCalls, metrics>>
                 ELSE /\ metrics.attempt < MaxSalvages
                      /\ salvageCalls' = salvageCalls \cup
                             {[pod |-> p, digest |-> loc.digest, source |-> src,
                               candidates |-> loc.nodes,
                               recorded |-> \E r \in records :
                                               r.digest = loc.digest /\ r.phase = "Completed"]}
                      /\ metrics' = [metrics EXCEPT !.attempt = @ + 1]
                      /\ wk' = [wk EXCEPT ![p].pc = "acquire",
                                          ![p].call = [NoCall EXCEPT
                                              !.digest = loc.digest, !.imageRef = f.image,
                                              !.source = src, !.target = pod.nodeName]]
    /\ UNCHANGED <<gateLog, cfg, now, pods, store, agentSessions, orchSessions, nextToken,
                   semaphore, records, prepLog, importLog, lastExport, pushLog,
                   removals, recordLog, returned, ex, sv, fx, im>>

isTransientError_Always(err) == TRUE

\* isTransientError: rate limit, connection and gRPC errors are transient;
\* size exceeded, a missing agent and a digest mismatch are permanent
isTransientError(err) == err \in {"rate limited", "prepare export", "import"}

\* the Result Reconcile returns after the failure loop
ReconcileResult(errs) ==
    [requeueAfter |-> IF \E e \in errs : isTransientError(e) THEN RequeueDelay ELSE 0]

\* end of the failure loop
ReconcileDone(p) ==
    /\ wk[p].pc = "loop"
    /\ wk[p].idx > Len(Failures(p))
    /\ wk' = [wk EXCEPT ![p] = [Fresh(wk[p]) EXCEPT
                                    !.results = @ \cup {ReconcileResult(wk[p].errs)}]]
    /\ UNCHANGED <<im, fx, sv, ex, pullLog, gateLog, cfg, now, pods, store, agentSessions, orchSessions, nextToken,
                   semaphore, records, metrics, events, salvageCalls, prepLog,
                   importLog, lastExport, pushLog, removals, recordLog, returned>>

(***************************************************************************)
(* internal/transfer: Orchestrator.Salvage                                 *)
(***************************************************************************)
TryAcquire_OffByOne(sem) == sem <= cfg.maxConcurrentSalvages

\* the select on the semaphore channel: a send succeeds iff the buffer has room
TryAcquire(sem) == sem < cfg.maxConcurrentSalvages

SizeExceeded_Inverted(sizeBytes) ==
    cfg.maxImageSize > 0 /\ sizeBytes < cfg.maxImageSize

\* the image size limit check
SizeExceeded(sizeBytes) ==
    cfg.maxImageSize > 0 /\ sizeBytes > cfg.maxImageSize

prepareExport_ErrorSwallowed(endpoint, token, digest, rpcOK, storeOK) ==
    LET resp == PrepareExport(AgentAt(endpoint), token, digest, storeOK)
    IN  IF ~rpcOK THEN [err |-> FALSE, size |-> 0, served |-> FALSE, resp |-> resp]
        ELSE [err |-> FALSE, size |-> resp.size, served |-> TRUE, resp |-> resp]

\* Orchestrator.prepareExport: the client side of the PrepareExport call
prepareExport(endpoint, token, digest, rpcOK, storeOK) ==
    LET resp == PrepareExport(AgentAt(endpoint), token, digest, storeOK)
    IN  IF ~rpcOK THEN [err |-> TRUE, size |-> 0, served |-> FALSE, resp |-> resp]
        ELSE [err |-> ~resp.ok, size |-> resp.size, served |-> TRUE, resp |-> resp]

NextStage_PushFirst(stage) ==
    CASE stage = "imported" -> IF cfg.backupRegistry # "" THEN "push" ELSE "record"
      [] stage = "push" -> "record"
      [] OTHER -> "recover"

\* statement order of Salvage after a successful import
NextStage(stage) ==
    CASE stage = "imported" -> "record"
      [] stage = "record" -> IF cfg.backupRegistry # "" THEN "push" ELSE "recover"
      [] OTHER -> "recover"

\* Orchestrator.fail: failure counter and ImageSalvageFailed event
FailMetrics == [metrics EXCEPT !.failure = @ + 1]
FailEvents_Silent(p) == events

FailEvents(p) == Emit("ImageSalvageFailed", p)

\* Salvage returns: back in the failure loop of Reconcile; deleted tells
\* whether the call issued Client.Delete for the pod, and with what outcome
Exit(p, err, deleted) ==
    /\ wk' = [Continue(p) EXCEPT ![p].errs = IF err = "" THEN @ ELSE @ \cup {err}]
    /\ returned' = returned \cup
           {[pod |-> p, token |-> wk[p].call.token, err |-> err, deleted |-> deleted]}

\* a return on a path that does not reach the pod deletion
Return(p, err) == Exit(p, err, "none")

RateLimited_Fails(p) ==
    /\ Return(p, "rate limited")
    /\ metrics' = FailMetrics
    /\ events' = FailEvents(p)
    /\ UNCHANGED semaphore

\* the default case of the select: log and return the rate-limit error
RateLimited(p) ==
    /\ Return(p, "rate limited")
    /\ UNCHANGED <<semaphore, metrics, events>>

\* non-blocking acquire; rate limited when the semaphore is full
SalvageAcquire(p) ==
    /\ wk[p].pc = "acquire"
    /\ IF TryAcquire(semaphore)
       THEN /\ semaphore' = semaphore + 1
            /\ wk' = [wk EXCEPT ![p].pc = "resolve"]
            /\ UNCHANGED <<returned, metrics, events>>
       ELSE RateLimited(p)
    /\ UNCHANGED <<im, fx, sv, ex, pullLog, gateLog, cfg, now, pods, store, agentSessions, orchSessions, nextToken,
                   records, salvageCalls, prepLog, importLog,
                   lastExport, pushLog, removals, recordLog>>

\* resolve the source and the target agent endpoints
SalvageResolve(p) ==
    /\ wk[p].pc = "resolve"
    /\ \E srcListOK \in BOOLEAN, tgtListOK \in BOOLEAN :
          LET c == wk[p].call
              srcEP == EndpointForNode(c.source, srcListOK)
              tgtEP == EndpointForNode(c.target, tgtListOK)
          IN  IF srcEP = NoEndpoint \/ tgtEP = NoEndpoint
              THEN /\ metrics' = FailMetrics
                   /\ events' = FailEvents(p)
                   /\ semaphore' = semaphore - 1
                   /\ Return(p, IF srcEP = NoEndpoint THEN "resolving source agent"
                                ELSE "resolving target agent")
              ELSE /\ wk' = [wk EXCEPT ![p].pc = "session",
                                       ![p].call.srcEP = srcEP, ![p].call.tgtEP = tgtEP]
                   /\ UNCHANGED <<metrics, events, semaphore, returned>>
    /\ UNCHANGED <<im, fx, sv, ex, pullLog, gateLog, cfg, now, pods, store, agentSessions, orchSessions, nextToken,
                   records, salvageCalls, prepLog, importLog, lastExport, pushLog,
                   removals, recordLog>>

\* Sessions.Create with a fresh token
SalvageCreateSession(p) ==
    /\ wk[p].pc = "session"
    /\ LET c == wk[p].call
       IN  orchSessions' = Create(orchSessions, nextToken, c.digest, c.source, c.target,
                                  DefaultSessionTTL)
    /\ nextToken' = nextToken + 1
    /\ wk' = [wk EXCEPT ![p].pc = "prepare", ![p].call.token = nextToken]
    /\ UNCHANGED <<im, fx, sv, ex, pullLog, gateLog, cfg, now, pods, store, agentSessions, semaphore, records, metrics,
                   events, salvageCalls, prepLog, importLog, lastExport, pushLog,
                   removals, recordLog, returned>>

\* PrepareExport on the source agent, then the size check
SalvagePrepareExport(p) ==
    /\ wk[p].pc = "prepare"
    /\ \E rpcOK \in BOOLEAN, storeOK \in BOOLEAN :
          LET c == wk[p].call
              a == AgentAt(c.srcEP)
              r == prepareExport(c.srcEP, c.token, c.digest, rpcOK, storeOK)
          IN  /\ agentSessions' = IF r.served
                                  THEN [agentSessions EXCEPT ![a] = r.resp.sessions]
                                  ELSE agentSessions
              /\ prepLog' = IF r.served /\ r.resp.ok
                            THEN prepLog \cup {[agent |-> a, token |-> c.token,
                                                digest |-> c.digest, size |-> r.resp.size,
                                                live |-> Validate(agentSessions[a],
                                                                  c.token).ok]}
                            ELSE prepLog
              /\ IF r.err \/ SizeExceeded(r.size)
                 THEN /\ metrics' = FailMetrics
                      /\ events' = FailEvents(p)
                      /\ orchSessions' = Delete(orchSessions, c.token)
                      /\ semaphore' = semaphore - 1
                      /\ Return(p, IF r.err THEN "prepare export" ELSE "image size exceeded")
                 ELSE /\ wk' = [wk EXCEPT ![p].pc = "import", ![p].call.size = r.size]
                      /\ UNCHANGED <<metrics, events, orchSessions, semaphore, returned>>
    /\ UNCHANGED <<im, fx, sv, ex, pullLog, gateLog, cfg, now, pods, store, nextToken, records, salvageCalls, importLog,
                   lastExport, pushLog, removals, recordLog>>

Finish_KeepSlot(p, err, deleted) ==
    /\ orchSessions' = [t \in DOMAIN orchSessions \ {wk[p].call.token} |-> orchSessions[t]]
    /\ semaphore' = semaphore
    /\ Exit(p, err, deleted)

\* the deferred statements of Salvage and its return after a started session
Finish(p, err, deleted) ==
    /\ orchSessions' = Delete(orchSessions, wk[p].call.token)
    /\ semaphore' = semaphore - 1
    /\ Exit(p, err, deleted)

\* ImportFrom is issued to the target agent, which opens the ExportImage
\* stream on the source agent
SalvageImportFrom(p) ==
    /\ wk[p].pc = "import"
    /\ \E rpcOK \in BOOLEAN, dialOK \in BOOLEAN :
          LET c == wk[p].call
              src == AgentAt(c.srcEP)
              r == ExportImage(src, c.token)
          IN  /\ importLog' = importLog \cup
                     {[agent |-> AgentAt(c.tgtEP), token |-> c.token, digest |-> c.digest,
                       source |-> src]}
              /\ IF rpcOK /\ dialOK
                 THEN /\ lastExport' = ExportEntry(src, c.token, r, "import")
                      /\ agentSessions' = [agentSessions EXCEPT ![src] = r.sessions]
                      /\ wk' = [wk EXCEPT ![p].pc = "importing",
                                          ![p].call.exported =
                                              IF r.clean THEN r.digest ELSE NoDigest]
                      /\ UNCHANGED <<metrics, events, orchSessions, semaphore, returned>>
                 ELSE /\ metrics' = FailMetrics
                      /\ events' = FailEvents(p)
                      /\ Finish(p, "import", "none")
                      /\ UNCHANGED <<lastExport, agentSessions>>
    /\ UNCHANGED <<im, fx, sv, ex, pullLog, gateLog, cfg, now, pods, store, nextToken, records, salvageCalls, prepLog,
                   pushLog, removals, recordLog>>

ImportVerified_Unchecked(imported, digest, tgt) == TRUE

\* the digest check of Server.ImportFrom: the import produced the requested
\* digest, or the target store holds the requested digest
ImportVerified(imported, digest, tgt) == imported = digest \/ digest \in store[tgt]

\* the target agent imports the stream, verifies the digest and answers
SalvageImportFinish(p) ==
    /\ wk[p].pc = "importing"
    /\ \E outcome \in {"same", "repacked", "error"} :
          LET c == wk[p].call
              tgt == AgentAt(c.tgtEP)
              streamed == c.exported # NoDigest
              imported == IF outcome = "same" THEN c.exported ELSE DigestRepacked
              stored == streamed /\ outcome # "error"
              success == stored /\ ImportVerified(imported, c.digest, tgt)
          IN  /\ store' = IF stored THEN [store EXCEPT ![tgt] = @ \cup {imported}] ELSE store
              /\ IF success
                 THEN /\ metrics' = [metrics EXCEPT !.success = @ + 1]
                      /\ events' = Emit("ImageSalvaged", p)
                      /\ wk' = [wk EXCEPT ![p].pc = NextStage("imported")]
                      /\ UNCHANGED <<orchSessions, semaphore, returned>>
                 ELSE /\ metrics' = FailMetrics
                      /\ events' = FailEvents(p)
                      /\ Finish(p, IF stored THEN "import mismatch" ELSE "import", "none")
    /\ UNCHANGED <<im, fx, sv, ex, pullLog, gateLog, cfg, now, pods, agentSessions, nextToken, records, salvageCalls,
                   prepLog, importLog, lastExport, pushLog, removals, recordLog>>

\* the name createSalvageRecord gives the record: <pod name>-<short digest>
RecordName(podName, digest) ==
    LET idx == Index(Chars(digest), ":")
        hex == IF idx > 0 THEN Suffix(Chars(digest), idx + 1) ELSE Chars(digest)
        shortDigest == IF Len(hex) > ShortDigestLen THEN SubSeq(hex, 1, ShortDigestLen) ELSE hex
    IN  <<podName, shortDigest>>

\* Orchestrator.createSalvageRecord: the record it submits
createSalvageRecord(p, digest, imageRef, sourceNode, targetNode, phase, errMsg) ==
    [name |-> RecordName(p, digest), namespace |-> PodTable[p].namespace,
     podName |-> p, digest |-> digest, imageRef |-> imageRef,
     sourceNode |-> sourceNode, targetNode |-> targetNode,
     phase |-> phase, completedAt |-> now, error |-> errMsg]

CanCreate_NameNotChecked(rec, apiOK) == apiOK

\* Client.Create: rejected when the API call fails or the name is taken
CanCreate(rec, apiOK) ==
    apiOK /\ ~\E r \in records : r.name = rec.name /\ r.namespace = rec.namespace

\* the Completed record is written; a failure is only logged
SalvageCreateRecord(p) ==
    /\ wk[p].pc = "record"
    /\ \E apiOK \in BOOLEAN :
          LET c == wk[p].call
              rec == createSalvageRecord(p, c.digest, c.imageRef, c.source,
                                         c.target, "Completed", "")
          IN  /\ records' = IF CanCreate(rec, apiOK) THEN records \cup {rec} ELSE records
              /\ recordLog' = recordLog \cup
                     {[token |-> c.token, phase |-> "Completed",
                       created |-> CanCreate(rec, apiOK),
                       taken |-> \E r \in records : /\ r.name = rec.name
                                                    /\ r.namespace = rec.namespace]}
    /\ wk' = [wk EXCEPT ![p].pc = NextStage("record")]
    /\ UNCHANGED <<im, fx, sv, ex, pullLog, gateLog, cfg, now, pods, store, agentSessions, orchSessions, nextToken,
                   semaphore, metrics, events, salvageCalls, prepLog, importLog,
                   lastExport, pushLog, removals, returned>>

\* registry.BackupRef fails only for an empty registry
BackupRefFails(originalRef, backupRegistry) == backupRegistry = ""

PushMetrics_CountsFailure(ok) ==
    [metrics EXCEPT !.pushAttempt = @ + 1,
                    !.pushSuccess = IF ok THEN @ + 1 ELSE @,
                    !.pushFailure = IF ok THEN @ ELSE @ + 1,
                    !.failure = IF ok THEN @ ELSE @ + 1]

\* RecordPushAttempt, then RecordPushSuccess or RecordPushFailure
PushMetrics(ok) ==
    [metrics EXCEPT !.pushAttempt = @ + 1,
                    !.pushSuccess = IF ok THEN @ + 1 ELSE @,
                    !.pushFailure = IF ok THEN @ ELSE @ + 1]

\* pushToBackupRegistry: backup reference, credentials, then PushImage on the
\* source agent; every failure ends the push and nothing else
SalvagePush(p) ==
    /\ wk[p].pc = "push"
    /\ \E credsOK \in BOOLEAN, pushOK \in BOOLEAN :
          LET c == wk[p].call
              src == AgentAt(c.srcEP)
              ok == credsOK /\ pushOK /\ ExportOK(src, c.digest)
          IN  IF BackupRefFails(c.imageRef, cfg.backupRegistry)
              THEN UNCHANGED <<metrics, events, pushLog>>
              ELSE /\ metrics' = PushMetrics(ok)
                   /\ events' = Emit(IF ok THEN "ImagePushed" ELSE "ImagePushFailed", p)
                   /\ pushLog' = pushLog \cup
                          {[pod |-> p, token |-> c.token, digest |-> c.digest,
                            rpc |-> credsOK, ok |-> ok,
                            recorded |-> \E r \in records :
                                            /\ r.podName = p /\ r.digest = c.digest
                                            /\ r.phase = "Completed"]}
    /\ wk' = [wk EXCEPT ![p].pc = NextStage("push")]
    /\ UNCHANGED <<im, fx, sv, ex, pullLog, gateLog, cfg, now, pods, store, agentSessions, orchSessions, nextToken,
                   semaphore, records, salvageCalls, prepLog, importLog, lastExport,
                   removals, recordLog, returned>>

HasOwner_Always(pod) == TRUE

\* len(pod.OwnerReferences) > 0
HasOwner(pod) == pod.owners # << >>

\* the pod is deleted when it has an owner; Salvage returns nil
SalvageRecover(p) ==
    /\ wk[p].pc = "recover"
    /\ \E apiOK \in BOOLEAN :
          /\ pods' = IF HasOwner(PodTable[p]) /\ apiOK THEN pods \ {p} ELSE pods
          /\ Finish(p, "", IF ~HasOwner(PodTable[p]) THEN "none"
                           ELSE IF apiOK THEN "ok" ELSE "failed")
    /\ UNCHANGED <<im, fx, sv, ex, pullLog, gateLog, cfg, now, store, agentSessions, nextToken, records, metrics, events,
                   salvageCalls, prepLog, importLog, lastExport, pushLog, removals,
                   recordLog>>

(***************************************************************************)
(* internal/agent: the streaming part of Server.ExportImage.  The handler   *)
(* reads the pipe and sends chunks; the producer goroutine runs            *)
(* Store.Export into the pipe, reports its result on errCh and closes the  *)
(* pipe.  An io.Pipe Write returns when its data has been read or the read *)
(* end is closed; a Read returns data of a pending Write, or EOF once the  *)
(* write end is closed.  The archive is counted in pieces of one chunk     *)
(* buffer, numbered in the order Store.Export writes them; a Write of no   *)
(* bytes is read as zero bytes without an error.                           *)
(***************************************************************************)
\* the size of a piece in bytes, and the buffer of the handler in pieces
PieceSize == exportChunkSize
BufPieces == exportChunkSize \div PieceSize

system == <<cfg, now, pods, store, agentSessions, orchSessions, nextToken, semaphore,
            records, metrics, wk, events, salvageCalls, prepLog, importLog, lastExport,
            pushLog, removals, recordLog, returned, gateLog, pullLog, sv, fx, im>>

\* the stream after Validate succeeded: pipe and errCh made, goroutine started
OpenStream(chunks, faulty) ==
    [NoStream EXCEPT !.h = "read", !.g = "export", !.left = chunks, !.faulty = faulty]

BothDone == ex.h = "done" /\ ex.g = "done"

\* Store.Export hands the next part of the archive to pw.Write; zeros of its
\* Writes carry no bytes
ProducerWrite ==
    /\ ex.g = "export"
    /\ \E n \in 0..MaxWrite :
          /\ n <= ex.left
          /\ IF n = 0 THEN ex.zeros > 0 ELSE TRUE
          /\ ex' = [ex EXCEPT !.g = "write", !.pending = n, !.left = @ - n,
                              !.pipe = [i \in 1..n |-> ex.next + i - 1],
                              !.next = @ + n,
                              !.zeros = IF n = 0 THEN @ - 1 ELSE @,
                              !.empty = (n = 0)]
    /\ UNCHANGED system

\* pw.Write returns: nil when the data was read, ErrClosedPipe when the read
\* end is closed, which ends Store.Export with that error
ProducerWriteReturn ==
    /\ ex.g = "write"
    /\ \/ /\ ex.rclosed
          /\ ex' = [ex EXCEPT !.g = "report", !.gerr = "err", !.pending = 0,
                              !.pipe = << >>, !.empty = FALSE]
       \/ /\ ~ex.rclosed
          /\ ex.pending = 0 /\ ~ex.empty
          /\ ex' = [ex EXCEPT !.g = "export"]
    /\ UNCHANGED system

\* Store.Export returns: nil after the whole archive, an error when the
\* content is missing, and possibly the context error after a cancellation
ProducerReturn ==
    /\ ex.g = "export"
    /\ \/ /\ ex.left = 0
          /\ ex' = [ex EXCEPT !.g = "report", !.gerr = "nil"]
       \/ /\ ex.faulty \/ ex.cancelled
          /\ ex' = [ex EXCEPT !.g = "report", !.gerr = "err"]
    /\ UNCHANGED system

\* errCh <- err; the channel has room for one value
ProducerReport ==
    /\ ex.g = "report"
    /\ ex.errCh = "none"
    /\ ex' = [ex EXCEPT !.g = "close", !.errCh = ex.gerr]
    /\ UNCHANGED system

\* pw.Close(); the goroutine ends
ProducerClose ==
    /\ ex.g = "close"
    /\ ex' = [ex EXCEPT !.g = "done", !.wclosed = TRUE]
    /\ UNCHANGED system

Least(a, b) == IF a <= b THEN a ELSE b

AfterRead_AlwaysSend(e, chunk) == [e EXCEPT !.h = "send", !.buf = chunk]

\* the handler after a Read without error: Send when n > 0, else Read again
AfterRead(e, chunk) == IF Len(chunk) > 0 THEN [e EXCEPT !.h = "send", !.buf = chunk] ELSE e

\* pr.Read: at most one buffer of a pending Write, no bytes of an empty Write,
\* or EOF after pw.Close
HandlerRead ==
    /\ ex.h = "read"
    /\ \/ /\ ex.pending > 0
          /\ ex' = AfterRead([ex EXCEPT !.pending = @ - Least(@, BufPieces),
                                        !.pipe = Suffix(@, Least(Len(@), BufPieces) + 1)],
                             SubSeq(ex.pipe, 1, Least(ex.pending, BufPieces)))
       \/ /\ ex.pending = 0
          /\ ex.empty
          /\ ex' = AfterRead([ex EXCEPT !.empty = FALSE], << >>)
       \/ /\ ex.pending = 0
          /\ ~ex.empty
          /\ ex.wclosed
          /\ ex' = [ex EXCEPT !.h = "recv"]
    /\ UNCHANGED system

SendFailed_NoClose(e) ==
    [e EXCEPT !.h = "done", !.ret = "err", !.sendErr = TRUE, !.hit = TRUE]

\* the handler after a failed Send: pr.Close() and return the error
SendFailed(e) ==
    [e EXCEPT !.h = "done", !.ret = "err", !.sendErr = TRUE, !.rclosed = TRUE, !.hit = TRUE]

\* stream.Send: fails on a cancelled stream, and may fail on a live one
HandlerSend ==
    /\ ex.h = "send"
    /\ \/ /\ ~ex.cancelled
          /\ ex' = [ex EXCEPT !.h = "read", !.sent = Append(@, ex.buf), !.buf = << >>]
       \/ ex' = SendFailed(ex)
    /\ UNCHANGED system

\* after EOF: err := <-errCh
HandlerRecv ==
    /\ ex.h = "recv"
    /\ ex.errCh # "none"
    /\ ex' = [ex EXCEPT !.h = "done", !.ret = ex.errCh, !.errCh = "none"]
    /\ UNCHANGED system

\* the stream context is cancelled while Store.Export is running
Cancel ==
    /\ ex.h \in {"read", "send"}
    /\ ex.g \in {"export", "write"}
    /\ ~ex.cancelled
    /\ ex' = [ex EXCEPT !.cancelled = TRUE, !.hit = TRUE]
    /\ UNCHANGED system

Handler == HandlerRead \/ HandlerSend \/ HandlerRecv
Producer ==
    ProducerWrite \/ ProducerWriteReturn \/ ProducerReturn \/ ProducerReport \/ ProducerClose

(***************************************************************************)
(* internal/agent: the streaming part of Server.ImportFrom.  The receiver  *)
(* goroutine copies the chunks of the ExportImage stream into a pipe and   *)
(* reports a stream error on errCh; the handler runs Store.Import on the   *)
(* read end, polls errCh and verifies the digest.  The stream delivers cut *)
(* of the total chunks of the archive and then ends as fate says; a clean  *)
(* end comes only after the whole archive.  The read end is never closed.  *)
(***************************************************************************)
around == <<cfg, now, pods, store, agentSessions, orchSessions, nextToken, semaphore,
            records, metrics, wk, events, salvageCalls, prepLog, importLog, lastExport,
            pushLog, removals, recordLog, returned, gateLog, pullLog, ex, sv, fx>>

\* the call after source.ExportImage returned the stream: pipe and errCh made,
\* goroutine started, Store.Import entered
OpenImport(total, cut, fate) ==
    [NoImport EXCEPT !.h = "import", !.r = "recv", !.total = total, !.cut = cut,
                     !.fate = fate]

\* stream.Recv: the next chunk, which goes to pw.Write; io.EOF; or an error,
\* which is also what a Recv gets once the handler has closed the connection
ReceiverRecv ==
    /\ im.r = "recv"
    /\ \/ /\ im.sent < im.cut
          /\ im' = [im EXCEPT !.r = "write", !.sent = @ + 1, !.pending = 1]
       \/ /\ im.sent = im.cut /\ im.fate = "eof"
          /\ im' = [im EXCEPT !.r = "close"]
       \/ /\ (im.sent = im.cut /\ im.fate = "err") \/ im.h = "done"
          /\ im' = [im EXCEPT !.r = "report"]
    /\ UNCHANGED around

\* errCh <- err; the channel has room for the one value ever sent
ReceiverReport ==
    /\ im.r = "report"
    /\ im' = [im EXCEPT !.r = "close", !.errCh = "err"]
    /\ UNCHANGED around

\* pw.Write returns once its data has been read
ReceiverWriteReturn ==
    /\ im.r = "write"
    /\ im.pending = 0
    /\ im' = [im EXCEPT !.r = "recv"]
    /\ UNCHANGED around

\* the deferred pw.Close(); the goroutine ends
ReceiverClose ==
    /\ im.r = "close"
    /\ im' = [im EXCEPT !.r = "done", !.wclosed = TRUE]
    /\ UNCHANGED around

\* Store.Import reads the pipe: the data of a pending Write, or EOF after
\* pw.Close
ImportRead ==
    /\ im.h = "import"
    /\ ~im.sawEOF
    /\ \/ /\ im.pending > 0
          /\ im' = [im EXCEPT !.got = @ + 1, !.pending = 0]
       \/ /\ im.pending = 0 /\ im.wclosed
          /\ im' = [im EXCEPT !.sawEOF = TRUE]
    /\ UNCHANGED around

\* what Store.Import made of the data it read: the digest of the archive or
\* another one after the whole archive, another one after a part of it
Imported(e) == IF e.got = e.total THEN {"same", "other"} ELSE {"other"}

\* Store.Import returns: an error at any point; a digest once it has read
\* the whole archive (the reader of a tar archive stops at its end marker)
\* or has read EOF
ImportReturn ==
    /\ im.h = "import"
    /\ \/ im' = [im EXCEPT !.h = "done", !.ret = "fail"]
       \/ /\ im.got = im.total \/ im.sawEOF
          /\ \E d \in Imported(im) : im' = [im EXCEPT !.h = "select", !.imported = d]
    /\ UNCHANGED around

StreamFailed_Ignored(e) == FALSE

\* select { case streamErr := <-errCh: ...; default: }
StreamFailed(e) == e.errCh = "err"

ImportSelect ==
    /\ im.h = "select"
    /\ im' = IF StreamFailed(im)
             THEN [im EXCEPT !.h = "done", !.ret = "fail", !.errCh = "none"]
             ELSE [im EXCEPT !.h = "verify"]
    /\ UNCHANGED around

\* digest != req.Digest: Store.Has(req.Digest) decides, which is true when
\* the store holds the digest from elsewhere
ImportVerify ==
    /\ im.h = "verify"
    /\ \/ /\ im.imported = "same"
          /\ im' = [im EXCEPT !.h = "done", !.ret = "ok"]
       \/ /\ im.imported # "same"
          /\ \E has \in BOOLEAN :
                im' = [im EXCEPT !.h = "done", !.has = has,
                                 !.ret = IF has THEN "ok" ELSE "fail"]
    /\ UNCHANGED around

Receiver == ReceiverRecv \/ ReceiverReport \/ ReceiverWriteReturn \/ ReceiverClose

(***************************************************************************)
(* Environment: other callers of the agent service, and the clock.         *)
(***************************************************************************)
\* any peer may call ExportImage on an agent with a token of its choice
ThirdPartyExport(a, token) ==
    /\ LET r == ExportImage(a, token)
       IN  /\ lastExport' = ExportEntry(a, token, r, "peer")
           /\ agentSessions' = [agentSessions EXCEPT ![a] = r.sessions]
    /\ UNCHANGED <<im, fx, sv, ex, pullLog, gateLog, cfg, now, pods, store, orchSessions, nextToken, semaphore, records,
                   metrics, wk, events, salvageCalls, prepLog, importLog, pushLog,
                   removals, recordLog, returned>>

Tick ==
    /\ now + TickStep <= MaxTime
    /\ now' = now + TickStep
    /\ UNCHANGED <<im, fx, sv, ex, pullLog, gateLog, cfg, pods, store, agentSessions, orchSessions, nextToken, semaphore,
                   records, metrics, wk, events, salvageCalls, prepLog, importLog,
                   lastExport, pushLog, removals, recordLog, returned>>

Next ==
    \/ \E p \in DOMAIN wk : ReconcileBegin(p)
    \/ \E p \in DOMAIN wk : ReconcileCorrupt(p)
    \/ \E p \in DOMAIN wk : ReconcilePull(p)
    \/ \E p \in DOMAIN wk : ReconcileDone(p)
    \/ \E p \in DOMAIN wk : SalvageAcquire(p)
    \/ \E p \in DOMAIN wk : SalvageResolve(p)
    \/ \E p \in DOMAIN wk : SalvageCreateSession(p)
    \/ \E p \in DOMAIN wk : SalvagePrepareExport(p)
    \/ \E p \in DOMAIN wk : SalvageImportFrom(p)
    \/ \E p \in DOMAIN wk : SalvageImportFinish(p)
    \/ \E p \in DOMAIN wk : SalvageCreateRecord(p)
    \/ \E p \in DOMAIN wk : SalvagePush(p)
    \/ \E p \in DOMAIN wk : SalvageRecover(p)

Spec == Init /\ [][Next]_vars

\* the same system with other clients of the agents and a moving clock
InitOpen == InitFor(OpenClusters)

NextOpen ==
    \/ Next
    \/ \E a \in AgentNodes, t \in Tokens \cup {EmptyToken} : ThirdPartyExport(a, t)
    \/ Tick

SpecOpen == InitOpen /\ [][NextOpen]_vars

\* the controller with the default number of slots and two replicas that fail
\* on the same image
InitPair == InitFor(PairClusters)

SpecPair == InitPair /\ [][Next]_vars

\* one ExportImage stream on an agent: archives of one to MaxChunks chunks,
\* with and without missing content; the Go scheduler runs the
\* handler and the producer goroutine whenever they can take a step
InitExport ==
    /\ pods = {}
    /\ cfg = [enabled |-> FALSE, maxImageSize |-> 0, backupRegistry |-> "",
              maxConcurrentSalvages |-> MaxConcurrent]
    /\ ex \in {[OpenStream(n, f) EXCEPT !.zeros = z] :
                   n \in 1..MaxChunks, f \in BOOLEAN, z \in 0..1}
    /\ fx = NoFx
    /\ im = NoImport
    /\ Idle

NextExport ==
    \/ HandlerRead
    \/ HandlerSend
    \/ HandlerRecv
    \/ ProducerWrite
    \/ ProducerWriteReturn
    \/ ProducerReturn
    \/ ProducerReport
    \/ ProducerClose
    \/ Cancel

SpecExport ==
    InitExport /\ [][NextExport]_vars /\ WF_vars(Handler) /\ WF_vars(Producer)

(***************************************************************************)
(* A session.Store used on its own: any caller, any order of calls.  The   *)
(* store is orchSessions, the tokens are minted as Create mints them.      *)
(***************************************************************************)
TTLs == {-1, 1}          \* minutes; negative as in TestValidate_Expired
StoreTokens == 1..(MaxTokens + 1)

\* everything the store calls leave alone
aside == <<cfg, pods, store, agentSessions, semaphore, records, metrics, wk, events,
           salvageCalls, prepLog, importLog, lastExport, pushLog, removals, recordLog,
           returned, gateLog, pullLog, ex, fx, im>>

StoreCreate(digest, sourceNode, targetNode, ttl) ==
    /\ nextToken <= MaxTokens
    /\ orchSessions' = Create(orchSessions, nextToken, digest, sourceNode, targetNode, ttl)
    /\ nextToken' = nextToken + 1
    /\ sv' = [sv EXCEPT !.op = "create", !.token = nextToken, !.ok = TRUE,
                        !.sess = orchSessions'[nextToken], !.before = orchSessions,
                        !.made = (nextToken :> orchSessions'[nextToken]) @@ @]
    /\ UNCHANGED <<now, aside>>

StoreValidate(token) ==
    /\ LET v == Validate(orchSessions, token)
       IN  /\ orchSessions' = v.sessions
           /\ sv' = [sv EXCEPT !.op = "validate", !.token = token, !.ok = v.ok,
                               !.sess = v.sess, !.before = orchSessions,
                               !.seen = @ \cup {IF v.ok THEN "valid"
                                                ELSE IF token \in DOMAIN orchSessions
                                                     THEN "expired" ELSE "unknown"}]
    /\ UNCHANGED <<now, nextToken, aside>>

StoreDelete(token) ==
    /\ orchSessions' = Delete(orchSessions, token)
    /\ sv' = [sv EXCEPT !.op = "delete", !.token = token, !.ok = TRUE,
                        !.sess = NoSession, !.before = orchSessions]
    /\ UNCHANGED <<now, nextToken, aside>>

StoreCleanup ==
    /\ orchSessions' = Cleanup(orchSessions)
    /\ sv' = [sv EXCEPT !.op = "cleanup", !.token = EmptyToken, !.ok = TRUE,
                        !.sess = NoSession, !.before = orchSessions]
    /\ UNCHANGED <<now, nextToken, aside>>

StoreTick ==
    /\ now < MaxClock
    /\ now' = now + 1
    /\ sv' = [sv EXCEPT !.op = "tick", !.token = EmptyToken, !.ok = TRUE,
                        !.sess = NoSession, !.before = orchSessions]
    /\ UNCHANGED <<orchSessions, nextToken, aside>>

InitStore ==
    /\ pods = {}
    /\ cfg = [enabled |-> FALSE, maxImageSize |-> 0, backupRegistry |-> "",
              maxConcurrentSalvages |-> MaxConcurrent]
    /\ ex = NoStream
    /\ fx = NoFx
    /\ im = NoImport
    /\ Idle

NextStore ==
    \/ \E d \in {DigestA, DigestB}, ttl \in TTLs : StoreCreate(d, "n1", "n2", ttl)
    \/ \E t \in StoreTokens : StoreValidate(t)
    \/ \E t \in StoreTokens : StoreDelete(t)
    \/ StoreCleanup
    \/ StoreTick

SpecStore == InitStore /\ [][NextStore]_vars

InitImport ==
    /\ pods = {}
    /\ cfg = [enabled |-> FALSE, maxImageSize |-> 0, backupRegistry |-> "",
              maxConcurrentSalvages |-> MaxConcurrent]
    /\ ex = NoStream
    /\ fx = NoFx
    /\ im \in {OpenImport(total, cut, fate) :
                  total \in 1..MaxChunks, cut \in 0..MaxChunks, fate \in {"eof", "err"}}
    /\ im.cut <= im.total
    /\ im.fate = "eof" => im.cut = im.total
    /\ Idle

NextImport ==
    \/ ReceiverRecv
    \/ ReceiverReport
    \/ ReceiverWriteReturn
    \/ ReceiverClose
    \/ ImportRead
    \/ ImportReturn
    \/ ImportSelect
    \/ ImportVerify

SpecImport == InitImport /\ [][NextImport]_vars

(***************************************************************************)
(* Library functions applied on their own to inputs drawn from small sets. *)
(***************************************************************************)
\* everything but fx
beside == <<cfg, now, pods, store, agentSessions, orchSessions, nextToken, semaphore,
            records, metrics, wk, events, salvageCalls, prepLog, importLog, lastExport,
            pushLog, removals, recordLog, returned, gateLog, pullLog, ex, sv, im>>

Rep(c, n) == [i \in 1..n |-> c]

\* image references: a name, possibly "@", an algorithm prefix, a run of
\* characters and a tail
ResolveInputs ==
    {name \o at \o algo \o run \o tail :
        name \in {<< >>, <<"r">>, <<"r", ":", "t">>, <<"r", "@", "x">>},
        at \in {<< >>, <<"@">>},
        algo \in {<< >>, Sha256Prefix, <<"s","h","a","5","1","2",":">>},
        run \in {<< >>, Rep("f", HexLen), Rep("f", HexLen - 1), Rep("f", HexLen + 1),
                 Rep("z", HexLen), Rep("0", HexLen - 1) \o <<"g">>},
        tail \in {<< >>, <<"@", "y">>}}

ApplyResolve ==
    /\ fx.fn = "Resolve" /\ ~fx.done
    /\ fx' = [fx EXCEPT !.out = ResolveAt(fx.in, fx.in, LastIndex(fx.in, "@")),
                        !.done = TRUE]
    /\ UNCHANGED beside

\* image entries of a node: none, tag alone, digest alone, both, both in either
\* order with a second digest, a malformed digest beside the tag, another image
ImageGroups == {<<RefTagA>>, <<RefA>>, <<RefA, RefTagA>>, <<RefTagA, RefC>>,
                <<RefA, RefTagA, RefC>>, <<RefShort, RefTagA>>, <<RefB, RefTagB>>}
ImageLists == {<< >>} \cup {<<g>> : g \in ImageGroups}
                   \cup {<<g, h>> : g \in ImageGroups, h \in ImageGroups}
TagInputs ==
    {[items |-> << [name |-> "n1", images |-> a], [name |-> "n2", images |-> b] >>,
      tag |-> t] : a \in ImageLists, b \in ImageLists, t \in {RefTagA, RefTagB, RefTagX}}

ApplyFindNodesByTag ==
    /\ fx.fn = "FindNodesByTag" /\ ~fx.done
    /\ fx' = [fx EXCEPT !.out = FindNodesByTagIn(fx.in.items, fx.in.tag), !.done = TRUE]
    /\ UNCHANGED beside

\* container states as the kubelet reports them: running, or waiting with a
\* pull reason, a create error or a crash loop, and no message, the message of
\* a missing blob, or one that lacks "content digest"
DetectStates(name) ==
    {Running(name)} \cup
    {Waiting(name, r, m) :
        r \in {"ImagePullBackOff", "ErrImagePull", "CreateContainerError", "CrashLoopBackOff"},
        m \in {<< >>, CorruptMsg, <<"failed to resolve rootfs", ":", "not found">>}}
\* pods with containers main and side and init container init; the status
\* lists hold any of them in either order
DetectInputs ==
    {PodObj("p", "default", "n1", "true", NoDigest, << >>,
            <<Container("main", RefA), Container("side", RefB)>>, st,
            <<Container("init", RefTagA)>>, ist) :
        st \in {<< >>} \cup {<<a>> : a \in DetectStates("main")}
                       \cup {<<a, b>> : a \in DetectStates("main"), b \in DetectStates("side")}
                       \cup {<<b, a>> : a \in DetectStates("main"), b \in DetectStates("side")},
        ist \in {<< >>} \cup {<<c>> : c \in DetectStates("init")}}

ApplyDetect ==
    /\ fx.fn = "Detect" /\ ~fx.done
    /\ fx' = [fx EXCEPT !.out = Detect(fx.in), !.done = TRUE]
    /\ UNCHANGED beside

InitLib ==
    /\ pods = {}
    /\ cfg = [enabled |-> FALSE, maxImageSize |-> 0, backupRegistry |-> "",
              maxConcurrentSalvages |-> MaxConcurrent]
    /\ ex = NoStream
    /\ im = NoImport
    /\ Idle
    /\ fx \in {[NoFx EXCEPT !.fn = "Resolve", !.in = x] : x \in ResolveInputs}
            \cup {[NoFx EXCEPT !.fn = "FindNodesByTag", !.in = x] : x \in TagInputs}
            \cup {[NoFx EXCEPT !.fn = "Detect", !.in = x] : x \in DetectInputs}

NextLib ==
    \/ ApplyResolve
    \/ ApplyFindNodesByTag
    \/ ApplyDetect

SpecLib == InitLib /\ [][NextLib]_vars

TypeOK ==
    /\ now \in Times
    /\ pods \subseteq PodNames
    /\ semaphore \in 0..(cfg.maxConcurrentSalvages + 1)
    /\ nextToken \in 1..(MaxSalvages + 1)
    /\ \A p \in DOMAIN wk : wk[p].pc \in {"idle", "loop", "acquire", "resolve", "session",
                                        "prepare", "import", "importing", "record",
                                        "push", "recover"}

(***************************************************************************)
(* Properties                                                              *)
(***************************************************************************)
\* nothing was done on behalf of pod p
NoSideEffects(p) ==
    /\ p \in pods
    /\ wk[p].pc = "idle"
    /\ ~\E e \in events : e.pod = p
    /\ ~\E c \in salvageCalls : c.pod = p
    /\ ~\E e \in pushLog : e.pod = p
    /\ ~\E r \in removals : r.pod = p
    /\ ~\E r \in records : r.podName = p

\* Salvage calls that hold a semaphore slot
Holding == {p \in DOMAIN wk : wk[p].pc \in {"resolve", "session", "prepare", "import",
                                            "importing", "record", "push", "recover"}}

\* C1: a pod whose namespace does not carry tote.dev/allow = "true" (or cannot
\* be read), or that is not opted in by tote.dev/auto-salvage = "true" on
\* itself or on an owner up to two levels up, gets no event, no salvage, no
\* push, no image removal and is not deleted.
C1_NoOptInNoAction ==
    \A p \in DOMAIN wk :
        LET pod == PodTable[p]
            nsAllowed == pod.namespace \in DOMAIN NsAllow /\ NsAllow[pod.namespace] = "true"
        IN  (~nsAllowed \/ ~isAutoSalvageEnabled(pod)) => NoSideEffects(p)

C1_Witness ==
    /\ cfg.enabled
    /\ [pod |-> "nsoff", gate |-> "namespace"] \in gateLog
    /\ [pod |-> "ghost", gate |-> "namespace"] \in gateLog
    /\ [pod |-> "noopt", gate |-> "annotation"] \in gateLog
    /\ [pod |-> "deep", gate |-> "annotation"] \in gateLog

\* C2: a pod in kube-system, kube-public or kube-node-lease gets no event, no
\* salvage, no push, no image removal, no record and is not deleted, whatever
\* its annotations and those of its namespace.
C2_DeniedNoAction ==
    \A p \in DOMAIN wk :
        PodTable[p].namespace \in {"kube-system", "kube-public", "kube-node-lease"}
            => NoSideEffects(p)

C2_Witness ==
    /\ cfg.enabled
    /\ [pod |-> "sys", gate |-> "denied"] \in gateLog
    /\ [pod |-> "lease", gate |-> "denied"] \in gateLog

\* C3: the Salvage calls that have acquired a slot and not yet returned never
\* number more than the configured maximum.
C3_SlotsBounded == Cardinality(Holding) <= MaxConcurrent

C3_Witness ==
    /\ Cardinality(Holding) = MaxConcurrent
    /\ \E r \in returned : r.err = "rate limited"

\* C4: after a successful PrepareExport, ImportFrom is issued iff the size
\* limit is 0 or the reported size is at most the limit; over the limit the
\* call returns "image size exceeded" and no ImportFrom is issued.
C4_SizeGate ==
    \A e \in prepLog :
        LET over == cfg.maxImageSize > 0 /\ e.size > cfg.maxImageSize
            issued == \E i \in importLog : i.token = e.token
            aboutTo == \E p \in DOMAIN wk : wk[p].pc = "import" /\ wk[p].call.token = e.token
        IN  IF over
            THEN /\ ~issued
                 /\ ~aboutTo
                 /\ \E r \in returned : r.token = e.token /\ r.err = "image size exceeded"
            ELSE issued \/ aboutTo

C4_Witness ==
    /\ cfg.maxImageSize > 0
    /\ \E e \in prepLog : e.size > cfg.maxImageSize
    /\ \E e \in prepLog : /\ e.size = cfg.maxImageSize
                          /\ \E i \in importLog : i.token = e.token

\* C5: an ExportImage call with an empty token, a token without a session on
\* the agent, or a token whose session has expired starts no export producer
\* and sends no DataChunk.
C5_InvalidTokenRejected ==
    (/\ lastExport.by # "none"
     /\ \/ lastExport.token = EmptyToken
        \/ ~lastExport.inStore
        \/ lastExport.expired)
        => (~lastExport.started /\ lastExport.chunks = 0)

C5_Witness == lastExport.by = "peer" /\ lastExport.inStore /\ lastExport.expired

\* C6: an agent starts an export, or sends any bytes, only for a token that a
\* successful PrepareExport registered on that agent and that has not
\* expired, and it exports the digest of that PrepareExport.
C6_OnlyPreparedTokens ==
    (lastExport.started \/ lastExport.chunks > 0)
        => /\ ~lastExport.expired
           /\ \E e \in prepLog : /\ e.agent = lastExport.agent
                                 /\ e.token = lastExport.token
                                 /\ e.digest = lastExport.digest

C6_Witness == lastExport.by = "peer" /\ lastExport.chunks > 0

\* C7: every Salvage call of the reconciler has as source the first candidate
\* that is not the pod's node; no call has the pod's node as source, and none
\* is made when every candidate is the pod's node.
C7_SourceNotTarget ==
    \A c \in salvageCalls :
        LET node == PodTable[c.pod].nodeName
        IN  /\ c.source # node
            /\ \E i \in 1..Len(c.candidates) :
                  /\ c.candidates[i] = c.source
                  /\ \A j \in 1..(i - 1) : c.candidates[j] = node

C7_Witness ==
    \E c \in salvageCalls :
        /\ Len(c.candidates) > 1
        /\ c.candidates[1] = PodTable[c.pod].nodeName
        /\ c.source = c.candidates[2]

C9_PrepareFirst ==
    /\ \A i \in importLog :
          \E e \in prepLog : e.token = i.token /\ e.agent = i.source /\ e.digest = i.digest
    /\ lastExport.by = "import" =>
          \E e \in prepLog : e.token = lastExport.token /\ e.agent = lastExport.agent
    /\ \A r \in returned :
          r.err = "prepare export" => ~\E i \in importLog : i.token = r.token

C9_Witness ==
    /\ lastExport.by = "import"
    /\ \E i \in importLog : i.token = lastExport.token
    /\ \E r \in returned : r.err = "prepare export"

\* C10 as stated: whenever a backup push is attempted, the Completed record
\* of that salvage exists in the record store.
C10_RecordExistsAtPush == \A e \in pushLog : e.recorded

\* C10 as amended: before a backup push is attempted, the write of the
\* Completed record of that salvage has been attempted, and the record exists
\* at the push if that write succeeded.
C10_RecordWriteBeforePush ==
    \A e \in pushLog :
        \E r \in recordLog : /\ r.token = e.token
                             /\ r.phase = "Completed"
                             /\ r.created => e.recorded

C10_Witness == \E e \in pushLog : ~e.recorded

\* C11 as stated: a Salvage call that returned has a SalvageRecord write iff
\* it reached the size check: a Completed write after a success, a Failed
\* write after a size or import failure, and no write after a rate limit, an
\* endpoint resolution failure or a PrepareExport failure.
C11_RecordIffSizeCheckReached ==
    \A r \in returned :
        LET written(phase) == \E l \in recordLog : l.token = r.token /\ l.phase = phase
        IN  CASE r.err = "" -> written("Completed")
              [] r.err \in {"image size exceeded", "import", "import mismatch"} ->
                     written("Failed")
              [] OTHER -> ~written("Completed") /\ ~written("Failed")

\* Salvage calls whose import has succeeded and that have not yet returned
PastImport == {p \in DOMAIN wk : wk[p].pc \in {"record", "push", "recover"}}

\* C12: from the moment ImportFrom has succeeded until Salvage returns nil,
\* the image store of the target agent holds the requested digest.
C12_TargetHasDigest ==
    \A p \in PastImport : wk[p].call.digest \in store[wk[p].call.target]

C12_Witness ==
    \E p \in DOMAIN wk :
        /\ wk[p].pc = "recover"
        /\ wk[p].call.digest \in store[wk[p].call.target]
        /\ wk[p].call.digest \notin InitialStore[wk[p].call.target]
        /\ wk[p].call.digest \in InitialStore[wk[p].call.source]

AllReturned == \A p \in DOMAIN wk : wk[p].pc \in {"idle", "loop"}

\* C14: the semaphore holds exactly one element per Salvage call that has
\* acquired a slot and not yet returned, whatever path the calls that
\* returned took; when no call is in progress every slot is free.
C14_SlotsReleased ==
    /\ semaphore = Cardinality(Holding)
    /\ AllReturned => semaphore = 0

C14_Witness ==
    /\ AllReturned
    /\ semaphore = 0
    /\ \E r \in returned : r.err = ""
    /\ \E r \in returned : r.err \in {"import", "import mismatch", "image size exceeded",
                                      "prepare export",
                                      "resolving source agent", "resolving target agent"}

\* C15: a Salvage call that finds every slot taken returns the rate-limit
\* error in that same step: it goes straight back to its caller, leaves the
\* semaphore as it was, creates no session, resolves no endpoint, reaches no
\* agent, and neither counts a failure nor emits ImageSalvageFailed.
C15_RateLimitedReturnsAtOnce ==
    [][\A p \in DOMAIN wk :
          (wk[p].pc = "acquire" /\ semaphore = MaxConcurrent /\ wk'[p] # wk[p]) =>
              /\ wk'[p].pc = "loop"
              /\ wk'[p].call = NoCall
              /\ [pod |-> p, token |-> EmptyToken, err |-> "rate limited",
                  deleted |-> "none"] \in returned'
              /\ semaphore' = semaphore
              /\ orchSessions' = orchSessions
              /\ nextToken' = nextToken
              /\ agentSessions' = agentSessions
              /\ prepLog' = prepLog
              /\ importLog' = importLog
              /\ lastExport' = lastExport
              /\ pushLog' = pushLog
              /\ events' = events
              /\ metrics'.failure = metrics.failure]_vars

C15_Witness ==
    /\ \E r \in returned : r.err = "rate limited" /\ r.token = EmptyToken
    /\ semaphore = MaxConcurrent
    /\ metrics.failure = 0
    /\ metrics.attempt = MaxSalvages
    /\ ~\E e \in events : e.reason = "ImageSalvageFailed"

\* Salvage calls that have created their session and not yet returned
WithSession == {p \in DOMAIN wk : wk[p].pc \in {"prepare", "import", "importing",
                                               "record", "push", "recover"}}

\* C16: the orchestrator's session store holds exactly the sessions of the
\* Salvage calls that created one and have not yet returned; the session of a
\* call that returned, on whatever path, is gone, and with every call
\* returned the store is empty.
C16_SessionsDeleted ==
    /\ DOMAIN orchSessions = {wk[p].call.token : p \in WithSession}
    /\ \A r \in returned : r.token \notin DOMAIN orchSessions
    /\ AllReturned => orchSessions = EmptyStore

C16_Witness ==
    /\ AllReturned
    /\ orchSessions = EmptyStore
    /\ \E r \in returned : r.token # EmptyToken /\ r.err = ""
    /\ \E r \in returned : r.token # EmptyToken /\ r.err # ""

\* C17 as stated: once a Salvage call has returned, the token of its session
\* validates on no agent, so an ExportImage presented with it is rejected.
C17_TokenDeadAfterReturn ==
    \A r \in returned :
        r.token # EmptyToken =>
            \A a \in AgentNodes : /\ ~Validate(agentSessions[a], r.token).ok
                                  /\ ~ExportImage(a, r.token).started

\* C18 as stated: once an agent has accepted an ExportImage with a token, an
\* ExportImage presented to that agent with the same token is rejected.
C18_SingleExport ==
    lastExport.started => ~ExportImage(lastExport.agent, lastExport.token).started

\* C19 as stated: PrepareExport succeeds only for a token that identifies a
\* live session in the session store of the agent that serves it; with any
\* other non-empty token it returns an error, even if the digest is present.
C19_PrepareNeedsLiveSession == \A e \in prepLog : e.live

C21_NoDuplicateSalvage ==
    \A p \in Holding, q \in Holding :
        (/\ wk[p].call.digest = wk[q].call.digest
         /\ wk[p].call.target = wk[q].call.target) => p = q

\* C22: for a CorruptImage failure the reconciler emits ImageCorrupt, then
\* calls RemoveImage for the failing image on the pod's node, then deletes the
\* pod, the last only if the removal succeeded and the pod has an owner
\* reference; a pod whose removal failed is not deleted by that run; and no
\* Salvage call and no SalvageRecord is made for the failure.
C22_CorruptCleanupOnly ==
    /\ \A x \in removals :
          /\ SubSeq(x.steps, 1, 2) = <<"event", "remove">>
          /\ [reason |-> "ImageCorrupt", pod |-> x.pod] \in events
          /\ x.node = PodTable[x.pod].nodeName
          /\ x.steps \in {<<"event", "remove">>, <<"event", "remove", "delete">>}
          /\ Len(x.steps) = 3 <=> (x.ok /\ PodTable[x.pod].owners # << >>)
          /\ x.deleted => (Len(x.steps) = 3 /\ x.pod \notin pods)
    /\ \A p \in DOMAIN wk :
          /\ (p \notin pods /\ \A i \in 1..Len(Failures(p)) : Failures(p)[i].corruptImage)
                 => \E x \in removals : x.pod = p /\ x.ok /\ x.deleted
          /\ \A i \in 1..Len(Failures(p)) :
                Failures(p)[i].corruptImage =>
                    /\ ~\E c \in salvageCalls :
                           c.pod = p /\ c.digest = Resolve(Failures(p)[i].image).digest
                    /\ ~\E r \in records :
                           r.podName = p /\ r.imageRef = Failures(p)[i].image

C22_Witness ==
    /\ \E x \in removals : x.pod = "cor" /\ ~x.ok /\ Len(x.steps) = 2
    /\ \E x \in removals : x.pod = "cor" /\ x.ok /\ x.deleted
    /\ "cor" \notin pods
    /\ \E x \in removals : x.pod = "bare" /\ x.ok /\ Len(x.steps) = 2
    /\ "bare" \in pods

\* no node reports a digest for the tag, and no agent that can be asked
\* resolves it
Unresolvable(image, agentsOK) ==
    /\ ~Resolve(image).actionable
    /\ \A n \in Nodes : nodeDigestForTag(n, image) = NoDigest
    /\ \/ ~agentsOK
       \/ \A i \in 1..Len(AgentPods) :
              AgentPods[i].ip = "" \/ AgentTags(AgentPods[i].node, image) = NoDigest

\* C23: for a pull failure whose image carries no usable digest and whose tag
\* neither the node image lists nor any agent resolves, Reconcile emits one
\* ImageNotActionable event and nothing else, calls no Salvage, and no
\* SalvageRecord for that image of the pod exists.
C23_NotActionable ==
    \A e \in pullLog :
        Unresolvable(e.image, e.agentsOK) =>
            /\ e.reasons = <<"ImageNotActionable">>
            /\ [reason |-> "ImageNotActionable", pod |-> e.pod] \in events
            /\ ~e.salvage
            /\ ~\E r \in records : r.podName = e.pod /\ r.imageRef = e.image

C23_Witness ==
    /\ \E e \in pullLog : e.pod = "db" /\ e.image = RefTagX /\ Unresolvable(e.image, e.agentsOK)
    /\ \E c \in salvageCalls : c.pod = "db" /\ c.digest = DigestB
    /\ \E r \in returned : r.pod = "db"

\* C24: a push to the backup registry that fails emits ImagePushFailed and
\* counts a push failure, and nothing more: the salvage failure counter and
\* the success counter stay, no ImageSalvageFailed is emitted, the records
\* stay as they are, and Salvage goes on to the pod recovery step, from which
\* it returns nil without counting or emitting a failure.
C24_PushFailureNotFatal ==
    [][\A p \in DOMAIN wk :
          /\ (wk[p].pc = "push" /\ \E e \in pushLog' \ pushLog : ~e.ok) =>
                 /\ events' = events \cup {[reason |-> "ImagePushFailed", pod |-> p]}
                 /\ metrics' = [metrics EXCEPT !.pushAttempt = @ + 1, !.pushFailure = @ + 1]
                 /\ records' = records
                 /\ returned' = returned
                 /\ semaphore' = semaphore
                 /\ wk'[p].pc = "recover"
          /\ (wk[p].pc = "recover" /\ wk'[p] # wk[p]) =>
                 /\ \E r \in returned' \ returned :
                        /\ r.pod = p /\ r.token = wk[p].call.token /\ r.err = ""
                        /\ r.deleted # "none" <=> PodTable[p].owners # << >>
                 /\ wk'[p].errs = wk[p].errs
                 /\ events' = events
                 /\ metrics' = metrics
                 /\ records' = records]_vars

C24_Witness ==
    \E e \in pushLog :
        /\ ~e.ok
        /\ e.recorded
        /\ [pod |-> e.pod, token |-> e.token, err |-> "", deleted |-> "ok"] \in returned
        /\ e.pod \notin pods
        /\ \E r \in records : r.podName = e.pod /\ r.digest = e.digest /\ r.phase = "Completed"
        /\ [reason |-> "ImagePushFailed", pod |-> e.pod] \in events
        /\ [reason |-> "ImageSalvageFailed", pod |-> e.pod] \notin events
        /\ metrics.failure = 0
        /\ metrics.pushFailure = 1

\* C25: when the source node or the target node of a Salvage call has no
\* agent pod with an IP, the call fails at the endpoint resolution; a call
\* that fails there emits ImageSalvageFailed for the pod, counts one failure,
\* releases its slot and returns the resolution error, and it creates no
\* session, mints no token and reaches no agent: no PrepareExport, no
\* ImportFrom, no export.
C25_NoAgentNoSession ==
    [][\A p \in DOMAIN wk :
          (wk[p].pc = "resolve" /\ wk'[p] # wk[p]) =>
              LET c == wk[p].call
                  none == \/ EndpointForNode(c.source, TRUE) = NoEndpoint
                          \/ EndpointForNode(c.target, TRUE) = NoEndpoint
                  failed == wk'[p].pc = "loop"
              IN  /\ none => failed
                  /\ failed =>
                        /\ events' = events \cup {[reason |-> "ImageSalvageFailed", pod |-> p]}
                        /\ metrics' = [metrics EXCEPT !.failure = @ + 1]
                        /\ \E r \in returned' :
                               /\ r.pod = p /\ r.token = EmptyToken
                               /\ r.err \in {"resolving source agent", "resolving target agent"}
                        /\ semaphore' = semaphore - 1
                        /\ orchSessions' = orchSessions
                        /\ nextToken' = nextToken
                        /\ agentSessions' = agentSessions
                        /\ prepLog' = prepLog
                        /\ importLog' = importLog
                        /\ lastExport' = lastExport]_vars

C25_Witness ==
    /\ [pod |-> "far", token |-> EmptyToken, err |-> "resolving target agent",
        deleted |-> "none"] \in returned
    /\ EndpointForNode(PodTable["far"].nodeName, TRUE) = NoEndpoint
    /\ [reason |-> "ImageSalvageFailed", pod |-> "far"] \in events
    /\ metrics.failure = 1
    /\ nextToken = 1
    /\ orchSessions = EmptyStore
    /\ prepLog = {}
    /\ importLog = {}
    /\ semaphore = 0

\* C26 as stated: once the stream was cancelled or a Send failed during an
\* export, the handler and the producer are never both stuck before they
\* have ended, and the handler, when it has returned, has returned an error.
C26_CancelEndsInError ==
    ex.hit => /\ BothDone \/ ENABLED (Handler \/ Producer)
              /\ ex.h = "done" => ex.ret = "err"

\* C26 as amended: once the stream was cancelled or a Send failed during an
\* export, the handler and the producer goroutine both end; the handler
\* returns an error iff a Send failed or Store.Export reported an error, so
\* after a cancellation that comes when every chunk has been sent it returns
\* what Store.Export returned, which can be nil.
C26_BothEndsTerminate ==
    /\ ex.hit ~> BothDone
    /\ [](ex.h = "done" => (ex.ret = "err" <=> (ex.sendErr \/ ex.gerr = "err")))

C26_Witness ==
    /\ BothDone
    /\ ex.cancelled
    /\ ex.sendErr
    /\ ex.rclosed
    /\ ex.gerr = "err"
    /\ ex.ret = "err"
    /\ ex.left > 0

\* C27: with the kill switch off every reconcile returns at the first
\* statement: it has fetched no object, and whatever pods and failures the
\* cluster has, no event is emitted, no salvage started, no image removed,
\* no pod deleted, no record written, and no counter, session, slot or image
\* store changed.
C27_KillSwitch ==
    ~cfg.enabled =>
        /\ \A e \in gateLog : e.gate = "disabled" /\ Reads(e.gate) = {}
        /\ \A p \in DOMAIN wk : wk[p] = IdleWorker
        /\ pods = DOMAIN wk
        /\ events = {}
        /\ salvageCalls = {}
        /\ removals = {}
        /\ records = {}
        /\ recordLog = {}
        /\ pushLog = {}
        /\ prepLog = {}
        /\ importLog = {}
        /\ pullLog = {}
        /\ returned = {}
        /\ store = InitialStore
        /\ orchSessions = EmptyStore
        /\ agentSessions = [n \in AgentNodes |-> EmptyStore]
        /\ semaphore = 0
        /\ nextToken = 1
        /\ \A k \in DOMAIN metrics : metrics[k] = 0

C27_Witness ==
    /\ ~cfg.enabled
    /\ pods = {"own", "inh", "done", "cor", "deep"}
    /\ \A p \in pods : [pod |-> p, gate |-> "disabled"] \in gateLog

\* the owners of a pod, and the owners of those
Parents(p) == {PodTable[p].owners[i] : i \in 1..Len(PodTable[p].owners)}
GrandParents(p) ==
    UNION {{OwnerObj[o].owners[i] : i \in 1..Len(OwnerObj[o].owners)} : o \in Parents(p)}

\* the reconcile of p has passed the opt-in gates at least once
PassedOptIn(p) ==
    \/ wk[p].pc # "idle"
    \/ wk[p].results # {}
    \/ \E e \in events : e.pod = p
    \/ [pod |-> p, gate |-> "healthy"] \in gateLog

C29_OneCompletedRecord ==
    \A p \in DOMAIN PodTable, d \in Digests :
        LET short == SubSeq(Chars(d), 8, 15)
            named == {r \in records : /\ r.phase = "Completed"
                                      /\ r.name = <<p, short>>
                                      /\ r.namespace = PodTable[p].namespace}
        IN  /\ Cardinality(named) <= 1
            /\ \A r \in records :
                   r.podName = p /\ r.digest = d /\ r.phase = "Completed" => r \in named

\* a pod was salvaged for two digests that agree on their first 8 hex
\* characters: both imports are done, one Completed record stands
C29_Witness ==
    \E x, y \in salvageCalls, l \in recordLog :
        /\ x.pod = y.pod /\ x.digest # y.digest
        /\ RecordName(x.pod, x.digest) = RecordName(y.pod, y.digest)
        /\ l.phase = "Completed" /\ l.taken /\ ~l.created
        /\ Cardinality({r \in records : r.podName = x.pod}) = 1

\* C30: Validate returns true with the session as Create returned it iff the
\* token is in the store and the clock is not after the session's expiry;
\* otherwise it returns false with the zero session.  Validating an expired
\* token removes that token and nothing else; validating an unknown token
\* leaves the store as it was.
C30_Validate ==
    sv.op = "validate" =>
        LET b == sv.before
            t == sv.token
            known == t \in DOMAIN b
            live == known /\ now <= b[t].expiresAt
        IN  /\ sv.ok <=> live
            /\ sv.ok => sv.sess = sv.made[t]
            /\ ~sv.ok => sv.sess = NoSession
            /\ known /\ ~live =>
                   /\ DOMAIN orchSessions = DOMAIN b \ {t}
                   /\ \A u \in DOMAIN orchSessions : orchSessions[u] = b[u]
            /\ ~known => orchSessions = b

\* an expired token was validated while another session was in the store,
\* after valid and unknown tokens had been validated
C30_Witness ==
    /\ sv.op = "validate" /\ ~sv.ok
    /\ sv.token \in DOMAIN sv.before
    /\ DOMAIN orchSessions # {}
    /\ sv.seen = {"valid", "expired", "unknown"}

HexDigits == {"0", "1", "2", "3", "4", "5", "6", "7", "8", "9",
              "a", "b", "c", "d", "e", "f"}

\* the reference has an "@" followed by "sha256:" and 64 hexadecimal
\* characters, which end the reference
DigestForm(cs) ==
    \E i \in 1..Len(cs) :
        /\ cs[i] = "@"
        /\ Len(cs) - i = DigestLen
        /\ HasPrefix(Suffix(cs, i + 1), Sha256Prefix)
        /\ \A k \in (i + 8)..Len(cs) : cs[k] \in HexDigits

\* C31: Resolve(R).Actionable is true iff R contains "@" followed by "sha256:"
\* followed by exactly 64 hexadecimal characters; then Digest is that part of
\* R, otherwise Digest is empty; Original is R.
C31_ResolveHexDigest ==
    (fx.fn = "Resolve" /\ fx.done) =>
        /\ fx.out.original = fx.in
        /\ fx.out.actionable <=> DigestForm(fx.in)
        /\ IF fx.out.actionable
           THEN fx.out.digest = Suffix(fx.in, Len(fx.in) - DigestLen + 1)
           ELSE fx.out.digest = NoDigest

\* C32 as stated: ImportFrom returns ok = true only if the ExportImage stream
\* it consumed ended with a clean end-of-stream.
C32_OkOnlyAfterCleanEnd ==
    im.ret = "ok" => im.fate = "eof"

\* C32: when the stream fails before the whole archive was delivered,
\* ImportFrom returns ok = false under every interleaving of the receiver and
\* Store.Import, also when Import reported no error; ok = true is returned
\* only after Import has read the whole archive.
C32_OkOnlyAfterWholeArchive ==
    /\ im.ret = "ok" => im.got = im.total
    /\ (im.h = "done" /\ im.fate = "err" /\ im.cut < im.total) => im.ret = "fail"

\* the stream failed midway, Import took the part it got without an error,
\* and ImportFrom answered ok = false
C32_Witness ==
    /\ im.h = "done" /\ im.ret = "fail"
    /\ im.fate = "err" /\ 0 < im.cut /\ im.cut < im.total
    /\ im.imported # "none"

\* C33: once ImportFrom has returned, the receiver goroutine has ended or can
\* take a step.
C33_ReceiverEnds ==
    im.h = "done" => (im.r = "done" \/ ENABLED Receiver)

\* C34: a Salvage whose ImportFrom is answered with success has imported the
\* requested digest itself: the import of that call added nothing but the
\* requested digest to the target store.
C34_SuccessOnlyForOwnDigest ==
    [][\A p \in DOMAIN wk :
          (/\ wk[p].pc = "importing"
           /\ wk'[p].pc # "importing"
           /\ metrics'.success = metrics.success + 1) =>
              LET tgt == AgentAt(wk[p].call.tgtEP)
              IN  store'[tgt] \ store[tgt] \subseteq {wk[p].call.digest}]_vars

\* C35: once the pod has been deleted in a running reconcile, that reconcile
\* starts no further salvage, image removal or deletion for it.
C35_NothingAfterDelete ==
    [][\A p \in DOMAIN wk :
          (p \notin pods /\ wk[p].pc # "idle") =>
              /\ \A c \in salvageCalls' \ salvageCalls : c.pod # p
              /\ \A x \in removals' \ removals : x.pod # p
              /\ \A r \in returned' \ returned : r.pod = p => r.deleted = "none"]_vars

\* the name ends in "@sha256:" and 64 more characters
EndsInDigest(name) ==
    /\ Len(Chars(name)) >= Len(AtSha) + HexLen
    /\ SubSeq(Chars(name), Len(Chars(name)) - HexLen - Len(AtSha) + 1,
              Len(Chars(name)) - HexLen) = AtSha
\* the digest that ends the name
EndDigest(name) == Str(Suffix(Chars(name), Len(Chars(name)) - HexLen - Len(Sha256Prefix) + 1))
\* an image entry that holds the tag beside a name that ends in a digest
TagGroup(names, tag) ==
    /\ \E k \in 1..Len(names) : names[k] = tag
    /\ \E k \in 1..Len(names) : EndsInDigest(names[k])
Caches(images, tag, digest) ==
    \E g \in 1..Len(images) :
        /\ TagGroup(images[g], tag)
        /\ \E k \in 1..Len(images[g]) :
               EndsInDigest(images[g][k]) /\ EndDigest(images[g][k]) = digest
ItemAt(items, name) == (CHOOSE i \in 1..Len(items) : items[i].name = name)
TagCallDone == fx.fn = "FindNodesByTag" /\ fx.done

\* C36: every node that FindNodesByTag returns maps the tag to the returned
\* digest in one of its image entries
C36_ListedNodesCacheDigest ==
    TagCallDone =>
        \A i \in 1..Len(fx.out.nodes) :
            Caches(fx.in.items[ItemAt(fx.in.items, fx.out.nodes[i])].images,
                   fx.in.tag, fx.out.digest)

\* the nodes of the list that hold the tag beside a digest in one image entry
TagNodes(items, tag) ==
    SelectSeq(items, LAMBDA it : \E g \in 1..Len(it.images) : TagGroup(it.images[g], tag))

\* C39: FindNodesByTag returns exactly the nodes with an image entry that holds
\* both the tag and a name ending in "@sha256:" and 64 characters, with the
\* digest found on the first of them; no digest and no nodes when there is none
C39_FindNodesByTag ==
    TagCallDone =>
        /\ fx.out.nodes = [i \in 1..Len(TagNodes(fx.in.items, fx.in.tag)) |->
                              TagNodes(fx.in.items, fx.in.tag)[i].name]
        /\ IF TagNodes(fx.in.items, fx.in.tag) = << >>
           THEN fx.out.digest = NoDigest /\ fx.out.nodes = << >>
           ELSE Caches(TagNodes(fx.in.items, fx.in.tag)[1].images, fx.in.tag, fx.out.digest)
\* the first node holds the tag without a digest beside it and is left out, the
\* second holds both
C39_Witness ==
    /\ TagCallDone
    /\ fx.in.tag = RefTagA
    /\ fx.in.items[1].images = << <<RefShort, RefTagA>>, <<RefA>> >>
    /\ fx.out = [digest |-> DigestC, nodes |-> <<"n2">>]

\* positions of a reconcile inside Salvage before and after its outcome
BeforeOutcome == {"acquire", "resolve", "session", "prepare", "import", "importing"}
AfterOutcome == {"record", "push", "recover"}
InFlight == {p \in DOMAIN wk : wk[p].pc \in BeforeOutcome \cup AfterOutcome}
NewEvents(p) == {e.reason : e \in {x \in events' \ events : x.pod = p}}
\* Salvage is entered for p, is turned away at the semaphore, reaches its outcome
CallStarts(p) == wk[p].pc = "loop" /\ wk'[p].pc = "acquire"
CallTurnedAway(p) == wk[p].pc = "acquire" /\ wk'[p].pc = "loop"
CallDecided(p) == wk[p].pc \in BeforeOutcome /\ wk'[p].pc \notin BeforeOutcome
                      /\ ~CallTurnedAway(p)
Succeeds(p) ==
    /\ metrics'.success = metrics.success + 1 /\ metrics'.failure = metrics.failure
    /\ [reason |-> "ImageSalvaged", pod |-> p] \in events'
    /\ "ImageSalvageFailed" \notin NewEvents(p)
Fails(p) ==
    /\ metrics'.failure = metrics.failure + 1 /\ metrics'.success = metrics.success
    /\ [reason |-> "ImageSalvageFailed", pod |-> p] \in events'
    /\ "ImageSalvaged" \notin NewEvents(p)
Untouched(p) ==
    /\ metrics'.success = metrics.success /\ metrics'.failure = metrics.failure
    /\ NewEvents(p) \cap {"ImageSalvaged", "ImageSalvageFailed"} = {}

\* C37: a step that enters Salvage, and no other, adds one to the attempt
\* counter; a call that is turned away at the semaphore counts neither outcome;
\* every other call counts exactly one of success with ImageSalvaged and
\* failure with ImageSalvageFailed, in the step that decides it and nowhere else
C37_OneOutcomePerCall ==
    [][\A p \in DOMAIN wk :
          /\ (wk'[p] # wk[p]) =>
                 metrics'.attempt = metrics.attempt + (IF CallStarts(p) THEN 1 ELSE 0)
          /\ CallDecided(p) => (Succeeds(p) \/ Fails(p))
          /\ (wk'[p] # wk[p] /\ ~CallDecided(p)) => Untouched(p)]_vars
\* no call is in flight after one was turned away and one succeeded
C37_Witness ==
    /\ InFlight = {}
    /\ metrics.attempt = 2 /\ metrics.success = 1
    /\ \E r \in returned : r.err = "rate limited"
    /\ \E e \in events : e.reason = "ImageSalvaged"

\* the payloads of the chunks one after the other
RECURSIVE Payload(_)
Payload(chunks) == IF chunks = << >> THEN << >> ELSE Head(chunks) \o Payload(Tail(chunks))
\* the pieces Store.Export has written so far, in the order it wrote them
Written == [i \in 1..(ex.next - 1) |-> i]
CleanEnd == ex.h = "done" /\ ex.ret = "nil"

\* C38: the chunks ExportImage has sent are, in order, the bytes Store.Export
\* wrote, all of them once the stream has ended cleanly; every chunk holds at
\* least one byte and at most one buffer; a clean end comes only after
\* Store.Export returned nil with the whole archive written
C38_ChunksAreTheExport ==
    (ex.h # "idle") =>
        /\ Len(Payload(ex.sent)) <= Len(Written)
        /\ Payload(ex.sent) = SubSeq(Written, 1, Len(Payload(ex.sent)))
        /\ \A i \in 1..Len(ex.sent) : Len(ex.sent[i]) \in 1..BufPieces
        /\ CleanEnd => /\ Payload(ex.sent) = Written
                       /\ ex.g \in {"close", "done"} /\ ex.gerr = "nil"
                       /\ ex.left = 0
\* a clean end of the largest archive, written with an empty Write among the others
C38_Witness ==
    /\ CleanEnd
    /\ Len(ex.sent) = MaxChunks
    /\ ex.zeros = 0 /\ ex.g = "done"

\* a container state that is reported: waiting on a pull failure, or on a
\* create error whose message tells of a missing blob
PullFailed(cs) == cs.waiting /\ cs.reason \in {"ImagePullBackOff", "ErrImagePull"}
BlobMissing(cs) ==
    /\ cs.waiting /\ cs.reason = "CreateContainerError"
    /\ \A part \in {"failed to resolve rootfs", "content digest", "not found"} :
           \E i \in 1..Len(cs.message) : cs.message[i] = part
Reported(cs) == PullFailed(cs) \/ BlobMissing(cs)
\* the image the pod spec gives the container of that name
ImageInSpec(specs, name) == (CHOOSE c \in {specs[i] : i \in 1..Len(specs)} : c.name = name).image
\* one Failure for each reported state of the list, in the order of the list
FailuresFor(statuses, specs) ==
    [i \in 1..Len(SelectSeq(statuses, Reported)) |->
        [containerName |-> SelectSeq(statuses, Reported)[i].name,
         image |-> ImageInSpec(specs, SelectSeq(statuses, Reported)[i].name),
         reason |-> SelectSeq(statuses, Reported)[i].reason,
         corruptImage |-> BlobMissing(SelectSeq(statuses, Reported)[i])]]
DetectDone == fx.fn = "Detect" /\ fx.done

\* C40: Detect returns one Failure for each waiting container with a pull
\* failure (not corrupt) or a create error on a missing blob (corrupt), with
\* the image of the pod spec, in status order, main containers first, and
\* nothing for any other container
C40_Detect ==
    DetectDone =>
        fx.out = FailuresFor(fx.in.statuses, fx.in.containers)
                     \o FailuresFor(fx.in.initStatuses, fx.in.initContainers)
\* side is reported before main, corrupt, and the init container after both
C40_Witness ==
    /\ DetectDone
    /\ Len(fx.out) = 3
    /\ fx.out[1].containerName = "side" /\ fx.out[1].corruptImage /\ fx.out[1].image = RefB
    /\ fx.out[2].containerName = "main" /\ ~fx.out[2].corruptImage
    /\ fx.out[3].containerName = "init" /\ fx.out[3].reason = "ErrImagePull"
====
